---- MODULE Spec2Model ----
\* market-pulse persistence layer: the repositories (repos/*.py) running their
\* units of work in sessions (db/session.py) under BaseRepository's
\* _transaction_with_retry, against the tables of db/models.py.
\*
\* Each collector process runs one repository call at a time.  A call is a
\* sequence of SQL statements (the ORM's query / bulk delete / flush) followed
\* by the commit of get_db_session.  Statements of different processes
\* interleave; the database is PostgreSQL at its default isolation level,
\* READ COMMITTED: a statement sees the rows committed when it starts plus its
\* own transaction's writes, a write waits for a concurrent transaction that
\* holds the same row or the same unique key, and constraints are checked when
\* the statement runs.
EXTENDS Bags, FiniteSets, Integers, Sequences, TLC

VARIABLES
    db,        \* committed rows: table name -> bag of rows
    id_seq,    \* the BIGSERIAL sequences of article.id and signal.id
    pc,        \* per process: the statement its call executes next
    call,      \* per process: the repository call in progress and its arguments
    found,     \* per process: what the call's query returned (a set of rows)
    tx,        \* per process: the uncommitted writes of its session
    seen,      \* per process: the calls others committed while its call ran
    calls,     \* number of calls begun so far (also the logical clock)
    first_id,  \* url -> id returned by the first upsert_by_url of it (0: none)
    last       \* the outcome of the call that finished last

vars == <<db, id_seq, pc, call, found, tx, seen, calls, first_id, last>>

Procs == {"p1", "p2"}
Urls == {"u1", "u2", "u3"}
Versions == {"v1", "v2"}
Tables ==
    {"article", "article_ticker", "article_embed", "signal", "signal_contrib", "price_bar"}

--------------------------------------------------------------------------
\* Bags of rows

Rows(B) == BagToSet(B)

SeqToBag(s) ==
    LET elems == {s[i] : i \in DOMAIN s}
    IN  [e \in elems |-> Cardinality({i \in DOMAIN s : s[i] = e})]

\* the rows of bag B that satisfy Test, with their multiplicities
Restrict(B, Test(_)) ==
    LET keep == {r \in Rows(B) : Test(r)}
    IN  [r \in keep |-> B[r]]

NoWrites == [ins |-> EmptyBag, del |-> EmptyBag]
EmptyTx == [t \in Tables |-> NoWrites]

\* what a statement of process p reads in table t: the committed rows, without
\* the ones p deleted or replaced, plus the ones p inserted
Visible(p, t) == (db[t] (-) tx[p][t].del) (+) tx[p][t].ins

--------------------------------------------------------------------------
\* Constraints of db/models.py

\* a column set with a unique index in table t (ids come from a sequence)
UniqueColumnsNoArticleUrl(t) ==
    CASE t = "article" -> {"id"}
      [] t = "article_ticker" -> {"article_id", "ticker"}
      [] t = "article_embed" -> {"article_id"}
      [] t = "signal" -> {"id"}
      [] t = "signal_contrib" -> {"signal_id", "article_id"}
      [] t = "price_bar" -> {"ticker", "ts", "timeframe"}

UniqueColumnsNoLinkKey(t) ==
    CASE t = "article" -> {"url"}
      [] t = "article_ticker" -> {"article_id", "ticker", "confidence", "method", "matched_terms"}
      [] t = "article_embed" -> {"article_id"}
      [] t = "signal" -> {"id"}
      [] t = "signal_contrib" -> {"signal_id", "article_id"}
      [] t = "price_bar" -> {"ticker", "ts", "timeframe"}

UniqueColumns(t) ==
    CASE t = "article" -> {"url"}
      [] t = "article_ticker" -> {"article_id", "ticker"}
      [] t = "article_embed" -> {"article_id"}
      [] t = "signal" -> {"id"}
      [] t = "signal_contrib" -> {"signal_id", "article_id"}
      [] t = "price_bar" -> {"ticker", "ts", "timeframe"}

UniqueKey(t, r) == [c \in UniqueColumns(t) |-> r[c]]

ForeignKeysNoContribArticle(t) ==
    CASE t = "article_ticker" -> [article_id |-> <<"article", "id">>]
      [] t = "article_embed" -> [article_id |-> <<"article", "id">>]
      [] t = "signal_contrib" -> [signal_id |-> <<"signal", "id">>]
      [] OTHER -> <<>>

ForeignKeysNoContribSignal(t) ==
    CASE t = "article_ticker" -> [article_id |-> <<"article", "id">>]
      [] t = "article_embed" -> [article_id |-> <<"article", "id">>]
      [] t = "signal_contrib" -> [article_id |-> <<"article", "id">>]
      [] OTHER -> <<>>

\* the foreign keys of table t: column -> <<parent table, parent column>>
\* (the ticker symbols the calls use are rows of the ticker table, so the
\* foreign keys to ticker.symbol are always satisfied and are left out)
ForeignKeys(t) ==
    CASE t = "article_ticker" -> [article_id |-> <<"article", "id">>]
      [] t = "article_embed" -> [article_id |-> <<"article", "id">>]
      [] t = "signal_contrib" ->
            [signal_id |-> <<"signal", "id">>, article_id |-> <<"article", "id">>]
      [] OTHER -> <<>>

\* rows of table t that some other process has written and not yet committed
PendingOfOthers(p, t) ==
    UNION {Rows(tx[q][t].ins) \cup Rows(tx[q][t].del) : q \in Procs \ {p}}

\* INSERT of the rows of list rs waits while another session holds one of its keys
InsertBlocked(p, t, rs) ==
    \E i \in DOMAIN rs : \E o \in PendingOfOthers(p, t) :
        UniqueKey(t, o) = UniqueKey(t, rs[i])

UniqueViolation(p, t, rs) ==
    \/ \E i \in DOMAIN rs : \E o \in Rows(Visible(p, t)) :
            UniqueKey(t, o) = UniqueKey(t, rs[i])
    \/ \E i, j \in DOMAIN rs : i < j /\ UniqueKey(t, rs[i]) = UniqueKey(t, rs[j])

ForeignKeyViolation(p, t, rs) ==
    \E i \in DOMAIN rs : \E c \in DOMAIN ForeignKeys(t) :
        LET parent == ForeignKeys(t)[c]
        IN  \A o \in Rows(Visible(p, parent[1])) : o[parent[2]] # rs[i][c]

--------------------------------------------------------------------------
\* Errors: the exception class and the text of str(e)

UniqueViolationError ==
    [cls |-> "IntegrityError", text |-> "duplicate key value violates unique constraint"]
ForeignKeyError ==
    [cls |-> "IntegrityError", text |-> "violates foreign key constraint"]
StaleDataError ==
    [cls |-> "StaleDataError", text |-> "UPDATE statement expected to update 1 row(s); 0 were matched"]
DeadlockError ==
    [cls |-> "OperationalError", text |-> "(DeadlockDetected) deadlock detected"]
SerializationError ==
    [cls |-> "OperationalError", text |-> "(SerializationFailure) could not serialize access"]
ConnectionError ==
    [cls |-> "OperationalError", text |-> "server closed the connection unexpectedly"]
ValueError ==
    [cls |-> "ValueError", text |-> "deadlock in the caller's own code"]
NoError == [cls |-> "none", text |-> ""]

\* what the database or the body may raise at any statement, besides the
\* constraint violations the statements compute
Faults == {DeadlockError, SerializationError, ConnectionError, ValueError}

\* "deadlock" in str(e).lower() or "serialization" in str(e).lower()
MentionsConflict(e) == e.text \in {DeadlockError.text, SerializationError.text, ValueError.text}

max_retries == 3
first_attempt == 0

\* the except clause of _transaction_with_retry for the attempt-th iteration
RetryDecisionAnyDbError(e, attempt) ==
    IF e.cls \in {"OperationalError", "IntegrityError"} /\ attempt < max_retries - 1
    THEN "continue" ELSE "raise"

RetryDecision(e, attempt) ==
    IF e.cls \in {"OperationalError", "IntegrityError"}
    THEN IF MentionsConflict(e) /\ attempt < max_retries - 1
         THEN "continue" ELSE "raise"
    ELSE "raise"

\* a session of get_db_session, as it is left
SessionCommitted == [committed |-> TRUE, rolled_back |-> FALSE, closed |-> TRUE]
SessionRolledBack == [committed |-> FALSE, rolled_back |-> TRUE, closed |-> TRUE]
SessionAbandoned == [committed |-> FALSE, rolled_back |-> FALSE, closed |-> TRUE]

\* contextlib's answer to a generator that yields a second time: after an
\* exception was thrown into it, or after the body ended and the commit raised
GeneratorDidntStopAfterThrow ==
    [cls |-> "RuntimeError", text |-> "generator didn't stop after throw()"]
GeneratorDidntStop == [cls |-> "RuntimeError", text |-> "generator didn't stop"]

\* The outcome of a call of p whose unit of work (or whose commit) raised e:
\* get_db_session rolls the session back, closes it and re-raises; the except
\* clause of _transaction_with_retry either re-raises or continues its loop,
\* and a loop that continues opens a session and yields it again, which a
\* context manager cannot do: the with statement raises RuntimeError, the
\* generator is closed at its second yield and that session is closed unused.
Raised(p, e) ==
    LET again == RetryDecision(e, first_attempt) = "continue"
    IN  [proc |-> p, call |-> call[p], status |-> "raised", value |-> 0,
         thrown |-> e,
         error |-> IF ~again THEN e
                   ELSE IF pc[p] = "commit" THEN GeneratorDidntStop
                   ELSE GeneratorDidntStopAfterThrow,
         sessions |-> IF again THEN <<SessionRolledBack, SessionAbandoned>>
                      ELSE <<SessionRolledBack>>,
         executions |-> 1,
         concurrent |-> seen[p], writes |-> EmptyTx]

Returned(p, v) ==
    [proc |-> p, call |-> call[p], status |-> "returned", value |-> v,
     thrown |-> NoError, error |-> NoError,
     sessions |-> <<SessionCommitted>>, executions |-> 1,
     concurrent |-> seen[p], writes |-> tx[p]]

NoOutcome ==
    [proc |-> "none", call |-> [kind |-> "none"], status |-> "none", value |-> 0,
     thrown |-> NoError, error |-> NoError, sessions |-> <<>>, executions |-> 0,
     concurrent |-> {}, writes |-> EmptyTx]

NoCall == [kind |-> "none"]

Idle(p) == pc[p] = "idle"

\* the call of p ends raising: its writes are discarded with its session
Fail(p, e) ==
    /\ last' = Raised(p, e)
    /\ pc' = [pc EXCEPT ![p] = "idle"]
    /\ call' = [call EXCEPT ![p] = NoCall]
    /\ found' = [found EXCEPT ![p] = {}]
    /\ tx' = [tx EXCEPT ![p] = EmptyTx]
    /\ seen' = [seen EXCEPT ![p] = {}]

Init ==
    /\ db = [t \in Tables |-> EmptyBag]
    /\ id_seq = [article |-> 0, signal |-> 0]
    /\ pc = [p \in Procs |-> "idle"]
    /\ call = [p \in Procs |-> NoCall]
    /\ found = [p \in Procs |-> {}]
    /\ tx = [p \in Procs |-> EmptyTx]
    /\ seen = [p \in Procs |-> {}]
    /\ calls = 0
    /\ first_id = [u \in Urls |-> 0]
    /\ last = NoOutcome

--------------------------------------------------------------------------
\* Steps every call shares

\* process p calls a repository method; c names it and carries its arguments
Begin(p, c, first, bound) ==
    /\ Idle(p)
    /\ calls < bound
    /\ calls' = calls + 1
    /\ call' = [call EXCEPT ![p] = c]
    /\ pc' = [pc EXCEPT ![p] = first]
    /\ UNCHANGED <<db, id_seq, found, tx, seen, first_id, last>>

\* the value the call in progress returns
ReturnValue(p) ==
    CASE call[p].kind = "upsert_by_url" -> (CHOOSE r \in found[p] : TRUE).id
      [] call[p].kind = "upsert" -> CHOOSE r \in found[p] : TRUE
      [] call[p].kind = "add_signal_contribution" -> CHOOSE r \in found[p] : TRUE
      [] call[p].kind = "insert" -> [i \in DOMAIN call[p].points |-> found[p] + i]
      [] call[p].kind = "delete_by_id" -> found[p] # {}
      [] call[p].kind \in {"delete_old_articles", "delete_signals_by_ticker",
                           "delete_signals_by_time_range"} -> Cardinality(found[p])
      [] OTHER -> 0

\* get_db_session after the body ended: session.commit(), session.close()
Commit(p) ==
    /\ pc[p] = "commit"
    /\ db' = [t \in Tables |-> (db[t] (-) tx[p][t].del) (+) tx[p][t].ins]
    /\ last' = Returned(p, ReturnValue(p))
    /\ first_id' =
        IF call[p].kind = "upsert_by_url" /\ first_id[call[p].dto.url] = 0
        THEN [first_id EXCEPT ![call[p].dto.url] = ReturnValue(p)]
        ELSE first_id
    /\ seen' = [q \in Procs |->
                  IF q = p \/ Idle(q) THEN {} ELSE seen[q] \cup {call[p]}]
    /\ pc' = [pc EXCEPT ![p] = "idle"]
    /\ call' = [call EXCEPT ![p] = NoCall]
    /\ found' = [found EXCEPT ![p] = {}]
    /\ tx' = [tx EXCEPT ![p] = EmptyTx]
    /\ UNCHANGED <<id_seq, calls>>

\* a statement of the call, or its commit, raises e
Fault(p, e) ==
    /\ ~Idle(p)
    /\ Fail(p, e)
    /\ UNCHANGED <<db, id_seq, calls, first_id>>

\* the ORM's UPDATE of a loaded row: it sets the columns whose value the unit
\* of work changed, on the row's current version
OrmUpdate(loaded, modified, current) ==
    [c \in DOMAIN current |->
        IF modified[c] # loaded[c] THEN modified[c] ELSE current[c]]

\* UPDATE ... WHERE id = loaded.id waits while another session holds the row
UpdateBlocked(p, t, pk, loaded) ==
    \E q \in Procs \ {p} : \E o \in Rows(tx[q][t].del) : o[pk] = loaded[pk]

--------------------------------------------------------------------------
\* ArticleRepository.upsert_by_url

ArticleDTO(u, v) ==
    [source |-> v, url |-> u, published_at |-> v, title |-> v, text |-> v,
     lang |-> v, hash |-> v, credibility |-> v]

NewArticle(dto, id, now) ==
    [id |-> id, source |-> dto.source, url |-> dto.url, url_canonical |-> dto.url,
     published_at |-> dto.published_at, retrieved_at |-> now, title |-> dto.title,
     text |-> dto.text, lang |-> dto.lang, hash |-> dto.hash,
     credibility |-> dto.credibility]

UpdatedArticleKeepsTitle(existing, dto, now) ==
    [existing EXCEPT !.source = dto.source, !.url_canonical = dto.url,
                     !.published_at = dto.published_at, !.retrieved_at = now,
                     !.text = dto.text, !.lang = dto.lang,
                     !.hash = dto.hash, !.credibility = dto.credibility]

UpdatedArticle(existing, dto, now) ==
    [existing EXCEPT !.source = dto.source, !.url_canonical = dto.url,
                     !.published_at = dto.published_at, !.retrieved_at = now,
                     !.title = dto.title, !.text = dto.text, !.lang = dto.lang,
                     !.hash = dto.hash, !.credibility = dto.credibility]

\* session.query(Article).filter(Article.url == dto.url).first()
upsert_by_url_query(p) ==
    /\ pc[p] = "upsert_by_url:query"
    /\ LET matches == {r \in Rows(Visible(p, "article")) : r.url = call[p].dto.url}
       IN  \E first \in (IF matches = {} THEN {{}} ELSE {{r} : r \in matches}) :
               found' = [found EXCEPT ![p] = first]
    /\ pc' = [pc EXCEPT ![p] = "upsert_by_url:flush"]
    /\ UNCHANGED <<db, id_seq, call, tx, seen, calls, first_id, last>>

\* the existing branch: the assignments and session.flush()
upsert_by_url_update(p) ==
    /\ pc[p] = "upsert_by_url:flush"
    /\ found[p] # {}
    /\ LET existing == CHOOSE r \in found[p] : TRUE
           modified == UpdatedArticle(existing, call[p].dto, calls)
           current == {r \in Rows(db["article"]) : r.id = existing.id}
       IN  IF modified = existing
           THEN /\ pc' = [pc EXCEPT ![p] = "commit"]
                /\ UNCHANGED <<db, id_seq, call, found, tx, seen, calls, first_id, last>>
           ELSE /\ ~UpdateBlocked(p, "article", "id", existing)
                /\ IF current = {}
                   THEN /\ Fail(p, StaleDataError)
                        /\ UNCHANGED <<db, id_seq, calls, first_id>>
                   ELSE LET cur == CHOOSE r \in current : TRUE
                            new == OrmUpdate(existing, modified, cur)
                        IN  /\ tx' = [tx EXCEPT ![p]["article"] =
                                        [ins |-> @.ins (+) SetToBag({new}),
                                         del |-> @.del (+) SetToBag({cur})]]
                            /\ found' = [found EXCEPT ![p] = {modified}]
                            /\ pc' = [pc EXCEPT ![p] = "commit"]
                            /\ UNCHANGED <<db, id_seq, call, seen, calls, first_id, last>>

\* the else branch: Article(...), session.add(article), session.flush()
upsert_by_url_insert(p) ==
    /\ pc[p] = "upsert_by_url:flush"
    /\ found[p] = {}
    /\ LET article == NewArticle(call[p].dto, id_seq.article + 1, calls)
       IN  /\ ~InsertBlocked(p, "article", <<article>>)
           /\ id_seq' = [id_seq EXCEPT !.article = @ + 1]
           /\ IF UniqueViolation(p, "article", <<article>>)
              THEN /\ Fail(p, UniqueViolationError)
                   /\ UNCHANGED <<db, calls, first_id>>
              ELSE /\ tx' = [tx EXCEPT ![p]["article"].ins = @ (+) SetToBag({article})]
                   /\ found' = [found EXCEPT ![p] = {article}]
                   /\ pc' = [pc EXCEPT ![p] = "commit"]
                   /\ UNCHANGED <<db, call, seen, calls, first_id, last>>

--------------------------------------------------------------------------
\* ArticleRepository.bulk_insert_links

TickerLinkDTO(ticker, confidence, method, matched_terms) ==
    [ticker |-> ticker, confidence |-> confidence, method |-> method,
     matched_terms |-> matched_terms]

ArticleTicker(article_id, link) ==
    [article_id |-> article_id, ticker |-> link.ticker,
     confidence |-> link.confidence, method |-> link.method,
     matched_terms |-> [terms |-> link.matched_terms]]

\* the rows add_all receives, in the order of the list
ArticleLinks(article_id, links) ==
    [i \in DOMAIN links |-> ArticleTicker(article_id, links[i])]

\* "if not links: return": no session is opened
bulk_insert_links_empty(p, c, bound) ==
    /\ Idle(p)
    /\ calls < bound
    /\ c.links = <<>>
    /\ calls' = calls + 1
    /\ last' = [proc |-> p, call |-> c, status |-> "returned", value |-> 0,
                thrown |-> NoError, error |-> NoError, sessions |-> <<>>,
                executions |-> 0, concurrent |-> {}, writes |-> EmptyTx]
    /\ UNCHANGED <<db, id_seq, pc, call, found, tx, seen, first_id>>

\* the rows the bulk DELETE of article_id's links names
LinksToDeleteNone(p, article_id) == {}

LinksToDelete(p, article_id) ==
    {r \in Rows(Visible(p, "article_ticker")) : r.article_id = article_id}

\* session.query(ArticleTicker).filter(...).delete(): the statement starts and
\* selects, on its snapshot, the rows it will delete
bulk_insert_links_delete_scan(p) ==
    /\ pc[p] = "bulk_insert_links:delete"
    /\ found' = [found EXCEPT ![p] = LinksToDelete(p, call[p].article_id)]
    /\ pc' = [pc EXCEPT ![p] = "bulk_insert_links:delete_rows"]
    /\ UNCHANGED <<db, id_seq, call, tx, seen, calls, first_id, last>>

\* ... and deletes them: it waits for a session that holds one of them, and
\* skips the rows a transaction committed meanwhile has deleted
bulk_insert_links_delete_rows(p) ==
    /\ pc[p] = "bulk_insert_links:delete_rows"
    /\ \A q \in Procs \ {p} : found[p] \cap Rows(tx[q]["article_ticker"].del) = {}
    /\ tx' = [tx EXCEPT ![p]["article_ticker"].del =
                Restrict(db["article_ticker"], LAMBDA r : r \in found[p])]
    /\ found' = [found EXCEPT ![p] = {}]
    /\ pc' = [pc EXCEPT ![p] = "bulk_insert_links:flush"]
    /\ UNCHANGED <<db, id_seq, call, seen, calls, first_id, last>>

\* as bulk_insert_links_flush, but over a DELETE that was committed on its own
bulk_insert_links_flush_after_committed_delete(p) ==
    /\ pc[p] = "bulk_insert_links:flush"
    /\ LET article_links == ArticleLinks(call[p].article_id, call[p].links)
           deleted == [db EXCEPT !["article_ticker"] = @ (-) tx[p]["article_ticker"].del]
       IN  /\ ~InsertBlocked(p, "article_ticker", article_links)
           /\ IF UniqueViolation(p, "article_ticker", article_links)
              THEN Fail(p, UniqueViolationError) /\ db' = deleted
              ELSE IF ForeignKeyViolation(p, "article_ticker", article_links)
              THEN Fail(p, ForeignKeyError) /\ db' = deleted
              ELSE /\ tx' = [tx EXCEPT ![p]["article_ticker"].ins =
                                @ (+) SeqToBag(article_links)]
                   /\ pc' = [pc EXCEPT ![p] = "commit"]
                   /\ UNCHANGED <<db, call, found, seen, last>>
    /\ UNCHANGED <<id_seq, calls, first_id>>

\* the loop building article_links, session.add_all(article_links), session.flush()
bulk_insert_links_flush(p) ==
    /\ pc[p] = "bulk_insert_links:flush"
    /\ LET article_links == ArticleLinks(call[p].article_id, call[p].links)
       IN  /\ ~InsertBlocked(p, "article_ticker", article_links)
           /\ IF UniqueViolation(p, "article_ticker", article_links)
              THEN Fail(p, UniqueViolationError)
              ELSE IF ForeignKeyViolation(p, "article_ticker", article_links)
              THEN Fail(p, ForeignKeyError)
              ELSE /\ tx' = [tx EXCEPT ![p]["article_ticker"].ins =
                                @ (+) SeqToBag(article_links)]
                   /\ pc' = [pc EXCEPT ![p] = "commit"]
                   /\ UNCHANGED <<call, found, seen, last>>
    /\ UNCHANGED <<db, id_seq, calls, first_id>>

--------------------------------------------------------------------------
\* EmbedRepository.upsert

EmbeddingDTO(embedding, model) == [embedding |-> embedding, model |-> model, dims |-> 384]

ArticleEmbed(article_id, dto) ==
    [article_id |-> article_id, embedding |-> dto.embedding, model |-> dto.model,
     dims |-> dto.dims]

UpdatedEmbed(existing, dto) ==
    [existing EXCEPT !.embedding = dto.embedding, !.model = dto.model,
                     !.dims = dto.dims]

\* session.query(ArticleEmbed).filter(ArticleEmbed.article_id == article_id).first()
upsert_query(p) ==
    /\ pc[p] = "upsert:query"
    /\ LET matches == {r \in Rows(Visible(p, "article_embed")) :
                          r.article_id = call[p].article_id}
       IN  \E first \in (IF matches = {} THEN {{}} ELSE {{r} : r \in matches}) :
               found' = [found EXCEPT ![p] = first]
    /\ pc' = [pc EXCEPT ![p] = "upsert:flush"]
    /\ UNCHANGED <<db, id_seq, call, tx, seen, calls, first_id, last>>

\* the existing branch: the assignments and session.flush(). The flush
\* writes the columns the ORM counts as changed against the loaded row; the
\* vector column compares as an array, so an equal embedding may still count
\* as changed
upsert_update(p) ==
    /\ pc[p] = "upsert:flush"
    /\ found[p] # {}
    /\ LET existing == CHOOSE r \in found[p] : TRUE
           modified == UpdatedEmbed(existing, call[p].dto)
           changed == {c \in DOMAIN existing : modified[c] # existing[c]}
           current == {r \in Rows(db["article_embed"]) :
                          r.article_id = existing.article_id}
       IN  \E written \in {changed, changed \cup {"embedding"}} :
             IF written = {}
             THEN /\ pc' = [pc EXCEPT ![p] = "commit"]
                  /\ UNCHANGED <<call, found, tx, seen, last>>
             ELSE /\ ~UpdateBlocked(p, "article_embed", "article_id", existing)
                  /\ IF current = {}
                     THEN Fail(p, StaleDataError)
                     ELSE LET cur == CHOOSE r \in current : TRUE
                              new == [c \in DOMAIN cur |->
                                        IF c \in written THEN modified[c] ELSE cur[c]]
                          IN  /\ tx' = [tx EXCEPT ![p]["article_embed"] =
                                          [ins |-> @.ins (+) SetToBag({new}),
                                           del |-> @.del (+) SetToBag({cur})]]
                              /\ found' = [found EXCEPT ![p] = {modified}]
                              /\ pc' = [pc EXCEPT ![p] = "commit"]
                              /\ UNCHANGED <<call, seen, last>>
    /\ UNCHANGED <<db, id_seq, calls, first_id>>

\* the else branch: ArticleEmbed(...), session.add(embed), session.flush()
upsert_insert(p) ==
    /\ pc[p] = "upsert:flush"
    /\ found[p] = {}
    /\ LET embed == ArticleEmbed(call[p].article_id, call[p].dto)
       IN  /\ ~InsertBlocked(p, "article_embed", <<embed>>)
           /\ IF UniqueViolation(p, "article_embed", <<embed>>)
              THEN Fail(p, UniqueViolationError)
              ELSE IF ForeignKeyViolation(p, "article_embed", <<embed>>)
              THEN Fail(p, ForeignKeyError)
              ELSE /\ tx' = [tx EXCEPT ![p]["article_embed"].ins = @ (+) SetToBag({embed})]
                   /\ found' = [found EXCEPT ![p] = {embed}]
                   /\ pc' = [pc EXCEPT ![p] = "commit"]
                   /\ UNCHANGED <<call, seen, last>>
    /\ UNCHANGED <<db, id_seq, calls, first_id>>

--------------------------------------------------------------------------
\* SignalRepository.insert and add_signal_contribution

\* rank=None of SignalContribDTO
NoRank == 0

SignalDTO(ticker, ts, contributors) ==
    [ticker |-> ticker, ts |-> ts, sentiment |-> "0.8", novelty |-> "0.6",
     velocity |-> "0.7", event_tags |-> <<"earnings">>, score |-> "0.75",
     contributors |-> contributors]

SignalDroppingScore(dto, id) ==
    [id |-> id, ticker |-> dto.ticker, ts |-> dto.ts, sentiment |-> dto.sentiment,
     novelty |-> dto.novelty, velocity |-> dto.velocity,
     event_tags |-> dto.event_tags, score |-> "none"]

Signal(dto, id) ==
    [id |-> id, ticker |-> dto.ticker, ts |-> dto.ts, sentiment |-> dto.sentiment,
     novelty |-> dto.novelty, velocity |-> dto.velocity,
     event_tags |-> dto.event_tags, score |-> dto.score]

SignalContribDTO(signal_id, article_id, rank) ==
    [signal_id |-> signal_id, article_id |-> article_id, rank |-> rank]

SignalContrib(dto) ==
    [signal_id |-> dto.signal_id, article_id |-> dto.article_id, rank |-> dto.rank]

\* "if not points: return []": no session is opened
insert_empty(p, c, bound) ==
    /\ Idle(p)
    /\ calls < bound
    /\ c.points = <<>>
    /\ calls' = calls + 1
    /\ last' = [proc |-> p, call |-> c, status |-> "returned", value |-> <<>>,
                thrown |-> NoError, error |-> NoError, sessions |-> <<>>,
                executions |-> 0, concurrent |-> {}, writes |-> EmptyTx]
    /\ UNCHANGED <<db, id_seq, pc, call, found, tx, seen, first_id>>

\* as insert_flush, with a SignalContrib row for each contributor of a point
insert_flush_with_contributors(p) ==
    /\ pc[p] = "insert:flush"
    /\ LET points == call[p].points
           signal_objects == [i \in DOMAIN points |-> Signal(points[i], id_seq.signal + i)]
           named == {<<i, k>> \in (DOMAIN points) \X (1..2) :
                        k \in DOMAIN points[i].contributors}
           contribs == {SignalContrib(SignalContribDTO(id_seq.signal + n[1],
                                          points[n[1]].contributors[n[2]], n[2])) :
                           n \in named}
       IN  /\ id_seq' = [id_seq EXCEPT !.signal = @ + Len(points)]
           /\ tx' = [tx EXCEPT ![p]["signal"].ins = @ (+) SeqToBag(signal_objects),
                               ![p]["signal_contrib"].ins = @ (+) SetToBag(contribs)]
           /\ found' = [found EXCEPT ![p] = id_seq.signal]
           /\ pc' = [pc EXCEPT ![p] = "commit"]
    /\ UNCHANGED <<db, call, seen, calls, first_id, last>>

\* the loop building signal_objects, session.add_all(signal_objects),
\* session.flush(): the ids come from the sequence, in the order of the list
insert_flush(p) ==
    /\ pc[p] = "insert:flush"
    /\ LET signal_objects ==
              [i \in DOMAIN call[p].points |-> Signal(call[p].points[i], id_seq.signal + i)]
       IN  /\ id_seq' = [id_seq EXCEPT !.signal = @ + Len(call[p].points)]
           /\ tx' = [tx EXCEPT ![p]["signal"].ins = @ (+) SeqToBag(signal_objects)]
           /\ found' = [found EXCEPT ![p] = id_seq.signal]
           /\ pc' = [pc EXCEPT ![p] = "commit"]
    /\ UNCHANGED <<db, call, seen, calls, first_id, last>>

\* SignalContrib(...), session.add(contrib), session.flush()
add_signal_contribution_flush(p) ==
    /\ pc[p] = "add_signal_contribution:flush"
    /\ LET contrib == SignalContrib(call[p].dto)
       IN  /\ ~InsertBlocked(p, "signal_contrib", <<contrib>>)
           /\ IF UniqueViolation(p, "signal_contrib", <<contrib>>)
              THEN Fail(p, UniqueViolationError)
              ELSE IF ForeignKeyViolation(p, "signal_contrib", <<contrib>>)
              THEN Fail(p, ForeignKeyError)
              ELSE /\ tx' = [tx EXCEPT ![p]["signal_contrib"].ins = @ (+) SetToBag({contrib})]
                   /\ found' = [found EXCEPT ![p] = {contrib}]
                   /\ pc' = [pc EXCEPT ![p] = "commit"]
                   /\ UNCHANGED <<call, seen, last>>
    /\ UNCHANGED <<db, id_seq, calls, first_id>>

--------------------------------------------------------------------------
\* Deletes: BaseRepository.delete / delete_by_id, and the bulk deletes of
\* ArticleRepository and SignalRepository

\* the order of the datetime values the calls use
Instant(d) ==
    CASE d \in {"v1", "t1"} -> 1
      [] d \in {"v2", "t2"} -> 2
      [] d \in {"v3", "t3"} -> 3

\* the rows of child table c that reference, through a foreign key, one of
\* the rows `parents` of table t
Referencing(p, c, t, parents) ==
    LET Test(r) == \E col \in DOMAIN ForeignKeys(c) :
                      /\ ForeignKeys(c)[col][1] = t
                      /\ \E o \in parents : r[col] = o[ForeignKeys(c)[col][2]]
    IN  Restrict(Visible(p, c), Test)

\* DELETE of the rows `parents` of table t; ondelete="CASCADE" makes the
\* database delete the rows of the other tables that reference them
DeleteRows(p, t, parents) ==
    [c \in Tables |->
        [ins |-> tx[p][c].ins,
         del |-> tx[p][c].del (+)
                 (IF c = t
                  THEN LET Test(r) == r \in parents IN Restrict(Visible(p, t), Test)
                  ELSE Referencing(p, c, t, parents))]]

\* the DELETE waits while another session holds one of the rows, or has
\* inserted a row that references one of them
DeleteBlocked(p, t, parents) ==
    \E q \in Procs \ {p} :
        \/ \E o \in Rows(tx[q][t].ins) \cup Rows(tx[q][t].del) :
              \E r \in parents : UniqueKey(t, o) = UniqueKey(t, r)
        \/ \E c \in Tables \ {t} : \E col \in DOMAIN ForeignKeys(c) :
              /\ ForeignKeys(c)[col][1] = t
              /\ \E o \in Rows(tx[q][c].ins) \cup Rows(tx[q][c].del) :
                    \E r \in parents : o[col] = r[ForeignKeys(c)[col][2]]

\* the one-to-many relationships of a model that carry no delete cascade:
\* when the parent is deleted through the session, the ORM sets the foreign
\* key of each child to NULL
RelationshipsWithoutDeleteCascade(t) ==
    IF t = "article" THEN {"signal_contrib"} ELSE {}

\* the foreign key columns the ORM would set to NULL are primary key columns
BlankOutPrimaryKeyError ==
    [cls |-> "AssertionError",
     text |-> "Dependency rule tried to blank-out primary key column"]

\* session.query(Article).filter(Article.published_at < cutoff_date).delete()
delete_old_articles_delete(p) ==
    /\ pc[p] = "delete_old_articles:delete"
    /\ LET matched == {r \in Rows(Visible(p, "article")) :
                          Instant(r.published_at) < Instant(call[p].cutoff_date)}
       IN  /\ ~DeleteBlocked(p, "article", matched)
           /\ tx' = [tx EXCEPT ![p] = DeleteRows(p, "article", matched)]
           /\ found' = [found EXCEPT ![p] = matched]
    /\ pc' = [pc EXCEPT ![p] = "commit"]
    /\ UNCHANGED <<db, id_seq, call, seen, calls, first_id, last>>

\* session.query(Signal).filter(Signal.ticker == ticker).delete()
delete_signals_by_ticker_delete(p) ==
    /\ pc[p] = "delete_signals_by_ticker:delete"
    /\ LET matched == {r \in Rows(Visible(p, "signal")) : r.ticker = call[p].ticker}
       IN  /\ ~DeleteBlocked(p, "signal", matched)
           /\ tx' = [tx EXCEPT ![p] = DeleteRows(p, "signal", matched)]
           /\ found' = [found EXCEPT ![p] = matched]
    /\ pc' = [pc EXCEPT ![p] = "commit"]
    /\ UNCHANGED <<db, id_seq, call, seen, calls, first_id, last>>

\* session.query(Signal).filter(and_(Signal.ts >= start_ts, Signal.ts <= end_ts)).delete()
delete_signals_by_time_range_delete(p) ==
    /\ pc[p] = "delete_signals_by_time_range:delete"
    /\ LET matched == {r \in Rows(Visible(p, "signal")) :
                          /\ Instant(r.ts) >= Instant(call[p].start_ts)
                          /\ Instant(r.ts) <= Instant(call[p].end_ts)}
       IN  /\ ~DeleteBlocked(p, "signal", matched)
           /\ tx' = [tx EXCEPT ![p] = DeleteRows(p, "signal", matched)]
           /\ found' = [found EXCEPT ![p] = matched]
    /\ pc' = [pc EXCEPT ![p] = "commit"]
    /\ UNCHANGED <<db, id_seq, call, seen, calls, first_id, last>>

\* entity = session.get(self.model_class, id); session.delete(entity) marks
\* it, "return False" when there is none
delete_by_id_get(p) ==
    /\ pc[p] = "delete_by_id:get"
    /\ LET entity == {r \in Rows(Visible(p, call[p].model)) : r.id = call[p].id}
       IN  /\ found' = [found EXCEPT ![p] = entity]
           /\ pc' = [pc EXCEPT ![p] = IF entity = {} THEN "commit" ELSE "delete:flush"]
    /\ UNCHANGED <<db, id_seq, call, tx, seen, calls, first_id, last>>

\* the flush of a session.delete(entity), run by session.commit(): the ORM
\* loads the entity's children, deletes those of a delete cascade and the
\* entity, and nulls the foreign key of the others
delete_flush(p) ==
    /\ pc[p] = "delete:flush"
    /\ LET t == call[p].model
           entity == IF call[p].kind = "delete" THEN {call[p].entity} ELSE found[p]
           stored == {r \in Rows(Visible(p, t)) : \E e \in entity : r.id = e.id}
           orphans == UNION {Rows(Referencing(p, c, t, stored)) :
                               c \in RelationshipsWithoutDeleteCascade(t)}
       IN  /\ ~DeleteBlocked(p, t, stored)
           /\ IF orphans # {}
              THEN Fail(p, BlankOutPrimaryKeyError)
              ELSE /\ tx' = [tx EXCEPT ![p] = DeleteRows(p, t, stored)]
                   /\ pc' = [pc EXCEPT ![p] = "commit"]
                   /\ UNCHANGED <<call, found, seen, last>>
    /\ UNCHANGED <<db, id_seq, calls, first_id>>

AllIdle == \A p \in Procs : Idle(p)

--------------------------------------------------------------------------
\* Article upserts, from concurrent collector processes and one at a time

MaxCallsArticle == 3

ArticleCalls ==
    {[kind |-> "upsert_by_url", dto |-> ArticleDTO(u, v)] :
        u \in {"u1", "u2"}, v \in Versions}

NextArticle ==
    \E p \in Procs :
        \/ \E c \in ArticleCalls : Begin(p, c, "upsert_by_url:query", MaxCallsArticle)
        \/ upsert_by_url_query(p)
        \/ upsert_by_url_update(p)
        \/ upsert_by_url_insert(p)
        \/ Commit(p)
        \/ \E e \in Faults : Fault(p, e)

SpecArticle == Init /\ [][NextArticle]_vars

NextArticleSeq ==
    \E p \in Procs :
        \/ \E c \in ArticleCalls :
              AllIdle /\ Begin(p, c, "upsert_by_url:query", MaxCallsArticle)
        \/ upsert_by_url_query(p)
        \/ upsert_by_url_update(p)
        \/ upsert_by_url_insert(p)
        \/ Commit(p)
        \/ \E e \in Faults : Fault(p, e)

SpecArticleSeq == Init /\ [][NextArticleSeq]_vars

\* the number of committed rows of table t that satisfy Test
Count(t, Test(_)) == BagCardinality(Restrict(db[t], Test))

\* C1: after upsert_by_url calls run one at a time, the article table holds
\* exactly one row per URL some upsert returned for; an upsert that returns
\* gives the id the first upsert of its URL returned, and leaves the row with
\* that id holding the source, title, text, lang, hash, credibility and
\* published_at of this call.
C1_UpsertByUrlOneRowLatestValues ==
    /\ \A u \in Urls :
          Count("article", LAMBDA r : r.url = u) = (IF first_id[u] # 0 THEN 1 ELSE 0)
    /\ (last.status = "returned" /\ last.call.kind = "upsert_by_url") =>
          LET dto == last.call.dto
          IN  /\ last.value = first_id[dto.url]
              /\ \E r \in Rows(db["article"]) :
                    /\ r.id = last.value /\ r.url = dto.url
                    /\ r.source = dto.source /\ r.title = dto.title
                    /\ r.text = dto.text /\ r.lang = dto.lang /\ r.hash = dto.hash
                    /\ r.credibility = dto.credibility
                    /\ r.published_at = dto.published_at

\* an upsert of an already stored URL returned, having replaced the row's values
C1_Witness ==
    /\ last.status = "returned" /\ last.call.kind = "upsert_by_url"
    /\ \E old \in Rows(last.writes["article"].del) :
          old.url = last.call.dto.url /\ old.title # last.call.dto.title
    /\ id_seq.article = 1

\* C2: whatever the interleaving of upsert_by_url transactions, at most one
\* article row per URL is ever committed.
C2_AtMostOneCommittedRowPerUrl ==
    \A u \in Urls : Count("article", LAMBDA r : r.url = u) <= 1

\* two upserts of one new URL both ran their lookup before either committed:
\* one committed its row, the other's INSERT was refused after it
C2_Witness ==
    /\ last.status = "raised" /\ last.call.kind = "upsert_by_url"
    /\ last.thrown = UniqueViolationError
    /\ Count("article", LAMBDA r : r.url = last.call.dto.url) = 1

--------------------------------------------------------------------------
\* Re-linking an article, from concurrent processes and one at a time

MaxCallsLinks == 3

AAPL_cashtag == TickerLinkDTO("AAPL", "0.9", "cashtag", <<"$AAPL">>)
AAPL_dict == TickerLinkDTO("AAPL", "0.6", "dict", <<"apple">>)
MSFT_ner == TickerLinkDTO("MSFT", "0.3", "ner", <<"Microsoft">>)

LinkLists ==
    {<<>>, <<AAPL_cashtag>>, <<MSFT_ner>>, <<AAPL_dict, MSFT_ner>>,
     <<AAPL_cashtag, AAPL_dict>>}

LinkedArticle == [kind |-> "upsert_by_url", dto |-> ArticleDTO("u1", "v1")]

LinkCalls ==
    {[kind |-> "bulk_insert_links", article_id |-> a, links |-> l] :
        a \in {1, 2}, l \in LinkLists}

LinksSteps(p) ==
    \/ upsert_by_url_query(p)
    \/ upsert_by_url_insert(p)
    \/ upsert_by_url_update(p)
    \/ bulk_insert_links_delete_scan(p)
    \/ bulk_insert_links_delete_rows(p)
    \/ bulk_insert_links_flush(p)
    \/ Commit(p)
    \/ Fault(p, DeadlockError)

NextLinks ==
    \E p \in Procs :
        \/ Begin(p, LinkedArticle, "upsert_by_url:query", MaxCallsLinks)
        \/ \E c \in LinkCalls : bulk_insert_links_empty(p, c, MaxCallsLinks)
        \/ \E c \in LinkCalls :
              c.links # <<>> /\ Begin(p, c, "bulk_insert_links:delete", MaxCallsLinks)
        \/ LinksSteps(p)

SpecLinks == Init /\ [][NextLinks]_vars

NextLinksSeq ==
    \E p \in Procs :
        \/ AllIdle /\ Begin(p, LinkedArticle, "upsert_by_url:query", MaxCallsLinks)
        \/ \E c \in LinkCalls : AllIdle /\ bulk_insert_links_empty(p, c, MaxCallsLinks)
        \/ \E c \in LinkCalls :
              /\ AllIdle /\ c.links # <<>>
              /\ Begin(p, c, "bulk_insert_links:delete", MaxCallsLinks)
        \/ LinksSteps(p)

SpecLinksSeq == Init /\ [][NextLinksSeq]_vars

\* the committed links of an article
LinksOf(a) == Restrict(db["article_ticker"], LAMBDA r : r.article_id = a)

\* C3 as amended: after bulk_insert_links(article_id, links) returns for a list
\* of one or more links, the stored rows of article_id are exactly the links of
\* that call: what was stored before and is not in the list is gone.
C3_NonEmptyListReplacesLinks ==
    (/\ last.status = "returned" /\ last.call.kind = "bulk_insert_links"
     /\ last.call.links # <<>>) =>
        LinksOf(last.call.article_id)
            = SeqToBag(ArticleLinks(last.call.article_id, last.call.links))

\* a re-link returned that removed a link the new list does not name
C3_Witness ==
    /\ last.status = "returned" /\ last.call.kind = "bulk_insert_links"
    /\ last.call.links # <<>>
    /\ \E old \in Rows(last.writes["article_ticker"].del) :
          \A i \in DOMAIN last.call.links : last.call.links[i].ticker # old.ticker

\* C3 as claimed: the same for every list, the empty one included
C3_AnyListReplacesLinks ==
    (last.status = "returned" /\ last.call.kind = "bulk_insert_links") =>
        LinksOf(last.call.article_id)
            = SeqToBag(ArticleLinks(last.call.article_id, last.call.links))

\* C4: in every reachable state, whatever the sequence or interleaving of
\* bulk_insert_links calls, there is at most one committed article_ticker row
\* per (article_id, ticker) pair.
C4_AtMostOneLinkPerPair ==
    \A l \in Rows(db["article_ticker"]) :
        Count("article_ticker",
              LAMBDA r : r.article_id = l.article_id /\ r.ticker = l.ticker) = 1

\* a re-link of one link was refused because an interleaved re-link of the same
\* article had committed that pair
C4_Witness ==
    /\ last.status = "raised" /\ last.call.kind = "bulk_insert_links"
    /\ last.thrown = UniqueViolationError
    /\ Len(last.call.links) = 1
    /\ \E l \in Rows(db["article_ticker"]) :
          l.article_id = last.call.article_id /\ l.ticker = last.call.links[1].ticker

\* C5 as claimed: when two bulk_insert_links transactions for one article
\* interleave and both commit, the article's stored links are the list of one
\* of the two calls, never a union or a mixture.
C5_InterleavedRelinksLeaveOneList ==
    (/\ last.status = "returned" /\ last.call.kind = "bulk_insert_links"
     /\ last.call.links # <<>>
     /\ Cardinality(last.concurrent) = 1) =>
        \A c \in last.concurrent :
            (c.kind = "bulk_insert_links" /\ c.article_id = last.call.article_id) =>
                LinksOf(last.call.article_id) \in
                    {SeqToBag(ArticleLinks(c.article_id, c.links)),
                     SeqToBag(ArticleLinks(c.article_id, last.call.links))}

--------------------------------------------------------------------------
\* The retry wrapper, under the article upserts and every fault

IsConflict(e) == e.cls \in {"OperationalError", "IntegrityError"} /\ MentionsConflict(e)

\* C6 as claimed: a unit of work that fails with a deadlock or serialization
\* error is executed again, for at most max_retries attempts in all; the call
\* then either returns normally or, after the last failed attempt, raises the
\* database error.
C6_ConflictIsRetriedUpToThreeTimes ==
    (last.status # "none" /\ IsConflict(last.thrown)) =>
        \/ last.status = "returned" /\ last.executions <= max_retries
        \/ /\ last.status = "raised"
           /\ last.executions = max_retries
           /\ last.error = last.thrown

--------------------------------------------------------------------------
\* Embedding upserts of one article from concurrent processes

MaxCallsEmbed == 4

MiniLM == EmbeddingDTO("vector-a", "MiniLM-L6-v2")
MPNet == EmbeddingDTO("vector-b", "mpnet-base")

EmbedCalls ==
    {[kind |-> "upsert", article_id |-> 1, dto |-> d] : d \in {MiniLM, MPNet}}

NextEmbed ==
    \E p \in Procs :
        \/ Begin(p, LinkedArticle, "upsert_by_url:query", MaxCallsEmbed)
        \/ \E c \in EmbedCalls : Begin(p, c, "upsert:query", MaxCallsEmbed)
        \/ upsert_by_url_query(p)
        \/ upsert_by_url_insert(p)
        \/ upsert_by_url_update(p)
        \/ upsert_query(p)
        \/ upsert_insert(p)
        \/ upsert_update(p)
        \/ Commit(p)
        \/ Fault(p, DeadlockError)

SpecEmbed == Init /\ [][NextEmbed]_vars

--------------------------------------------------------------------------
\* Signals and their contributions, one call at a time

MaxCallsSignal == 7

SignalArticles ==
    {[kind |-> "upsert_by_url", dto |-> ArticleDTO(u, "v1")] : u \in Urls}

SignalCalls ==
    {[kind |-> "insert", points |-> ps] :
        ps \in {<<>>, <<SignalDTO("AAPL", "t1", <<1, 2>>)>>}}

\* one contribution per article: ranked 1, ranked 2, and without a rank
ContribCalls ==
    {[kind |-> "add_signal_contribution", dto |-> SignalContribDTO(1, a, r)] :
        <<a, r>> \in {<<1, 1>>, <<2, 2>>, <<3, NoRank>>}}

\* a single caller
NextSignalSeq ==
    \E p \in {"p1"} :
        \/ \E c \in SignalArticles :
              AllIdle /\ Begin(p, c, "upsert_by_url:query", MaxCallsSignal)
        \/ \E c \in SignalCalls : AllIdle /\ insert_empty(p, c, MaxCallsSignal)
        \/ \E c \in SignalCalls :
              /\ AllIdle /\ c.points # <<>>
              /\ Begin(p, c, "insert:flush", MaxCallsSignal)
        \/ \E c \in ContribCalls :
              AllIdle /\ Begin(p, c, "add_signal_contribution:flush", MaxCallsSignal)
        \/ upsert_by_url_query(p)
        \/ upsert_by_url_insert(p)
        \/ upsert_by_url_update(p)
        \/ insert_flush(p)
        \/ add_signal_contribution_flush(p)
        \/ Commit(p)

SpecSignalSeq == Init /\ [][NextSignalSeq]_vars

ContribsOf(signal_id) ==
    LET Test(r) == r.signal_id = signal_id IN Restrict(db["signal_contrib"], Test)

\* C8 as claimed: every stored signal has at most two stored contributions.
C8_AtMostTwoContribsPerSignal ==
    \A s \in Rows(db["signal"]) : BagCardinality(ContribsOf(s.id)) <= 2

\* C9 as claimed: the ranks of the k stored contributions of a signal are
\* exactly 1..k, each once, and no contribution is stored without a rank.
C9_RanksAreOneToK ==
    \A s \in Rows(db["signal"]) :
        LET contribs == ContribsOf(s.id)
            k == BagCardinality(contribs)
        IN  /\ \A r \in Rows(contribs) : r.rank # NoRank
            /\ \A i \in 1..k :
                  Cardinality({r \in Rows(contribs) : r.rank = i}) = 1

--------------------------------------------------------------------------
\* Claims about the embedding upserts

EmbedsOf(article_id) ==
    LET Test(r) == r.article_id = article_id IN Restrict(db["article_embed"], Test)

HoldsEmbedding(article_id, dto) ==
    \E r \in Rows(EmbedsOf(article_id)) :
        r.embedding = dto.embedding /\ r.model = dto.model /\ r.dims = dto.dims

LastIsEmbedUpsert == last.status = "returned" /\ last.call.kind = "upsert"

\* C10 as claimed: at most one article_embed row per article in every state,
\* interleaved upserts included, and once an upsert has returned the row
\* holds the embedding, model and dims of that upsert.
C10_OneEmbedRowHoldingTheLastUpsert ==
    /\ \A a \in {1, 2} : BagCardinality(EmbedsOf(a)) <= 1
    /\ LastIsEmbedUpsert => HoldsEmbedding(last.call.article_id, last.call.dto)

--------------------------------------------------------------------------
\* Deleting articles that own links, an embedding and contributions; one
\* caller, one call at a time

MaxCallsArticleDelete == 6

OldArticle == [kind |-> "upsert_by_url", dto |-> ArticleDTO("u1", "v1")]
NewerArticle == [kind |-> "upsert_by_url", dto |-> ArticleDTO("u2", "v2")]

AAPL_t1 == SignalDTO("AAPL", "t1", <<1, 2>>)
MSFT_t2 == SignalDTO("MSFT", "t2", <<1>>)

OwnedRowCalls ==
    {[kind |-> "bulk_insert_links", article_id |-> 1, links |-> <<AAPL_cashtag>>],
     [kind |-> "upsert", article_id |-> 1, dto |-> MiniLM],
     [kind |-> "insert", points |-> <<AAPL_t1>>],
     [kind |-> "add_signal_contribution", dto |-> SignalContribDTO(1, 1, 1)]}

FirstStep(c) ==
    CASE c.kind = "upsert_by_url" -> "upsert_by_url:query"
      [] c.kind = "bulk_insert_links" -> "bulk_insert_links:delete"
      [] c.kind = "upsert" -> "upsert:query"
      [] c.kind = "insert" -> "insert:flush"
      [] c.kind = "add_signal_contribution" -> "add_signal_contribution:flush"
      [] c.kind = "delete_old_articles" -> "delete_old_articles:delete"
      [] c.kind = "delete_signals_by_ticker" -> "delete_signals_by_ticker:delete"
      [] c.kind = "delete_signals_by_time_range" -> "delete_signals_by_time_range:delete"
      [] c.kind = "delete_by_id" -> "delete_by_id:get"
      [] c.kind = "delete" -> "delete:flush"
      [] c.kind = "bulk_insert_embeddings" -> "bulk_insert_embeddings:flush"
      [] c.kind = "bulk_insert_bars" -> "bulk_insert_bars:flush"

ArticleDeleteCalls ==
    {[kind |-> "delete_old_articles", cutoff_date |-> d] : d \in {"v2", "v3"}}
    \cup {[kind |-> "delete_by_id", model |-> "article", id |-> i] : i \in {1, 2}}

\* delete(entity) is called with an entity the caller has just read
StoredEntities(t) == {[kind |-> "delete", model |-> t, entity |-> e] : e \in Rows(db[t])}

NextArticleDeleteSeq ==
    \E p \in {"p1"} :
        \/ \E c \in {OldArticle, NewerArticle} \cup OwnedRowCalls \cup ArticleDeleteCalls :
              AllIdle /\ Begin(p, c, FirstStep(c), MaxCallsArticleDelete)
        \/ \E c \in StoredEntities("article") :
              AllIdle /\ Begin(p, c, FirstStep(c), MaxCallsArticleDelete)
        \/ upsert_by_url_query(p)
        \/ upsert_by_url_insert(p)
        \/ upsert_by_url_update(p)
        \/ bulk_insert_links_delete_scan(p)
        \/ bulk_insert_links_delete_rows(p)
        \/ bulk_insert_links_flush(p)
        \/ upsert_query(p)
        \/ upsert_insert(p)
        \/ upsert_update(p)
        \/ insert_flush(p)
        \/ add_signal_contribution_flush(p)
        \/ delete_old_articles_delete(p)
        \/ delete_by_id_get(p)
        \/ delete_flush(p)
        \/ Commit(p)

SpecArticleDeleteSeq == Init /\ [][NextArticleDeleteSeq]_vars

ArticleDeletes == {"delete", "delete_by_id", "delete_old_articles"}

\* the rows of the tables that reference articles which name article id a
RowsOfArticle(a) ==
    {r \in Rows(db["article_embed"]) \cup Rows(db["article_ticker"])
           \cup Rows(db["signal_contrib"]) : r.article_id = a}

\* C11: after a call has deleted an article, no article_embed, article_ticker
\* or signal_contrib row references that article, and the call deleted or
\* changed no signal.
C11_DeletedArticleLeavesNoReference ==
    (/\ last.status = "returned"
     /\ last.call.kind \in ArticleDeletes
     /\ last.writes["article"].del # EmptyBag) =>
        /\ \A a \in Rows(last.writes["article"].del) :
              /\ RowsOfArticle(a.id) = {}
              /\ \A r \in Rows(db["article"]) : r.id # a.id
        /\ last.writes["signal"] = NoWrites

\* delete_old_articles removed an article together with its link, its
\* embedding and its contribution, and the signal the contribution belonged
\* to is still stored
C11_Witness ==
    /\ last.status = "returned"
    /\ last.call.kind = "delete_old_articles"
    /\ last.writes["article"].del # EmptyBag
    /\ last.writes["article_ticker"].del # EmptyBag
    /\ last.writes["article_embed"].del # EmptyBag
    /\ last.writes["signal_contrib"].del # EmptyBag
    /\ \E g \in Rows(db["signal"]) :
          \E r \in Rows(last.writes["signal_contrib"].del) : r.signal_id = g.id

--------------------------------------------------------------------------
\* Inserting and deleting signals; one caller, one call at a time

MaxCallsSignalDelete == 5

SignalLists == {<<>>, <<AAPL_t1>>, <<AAPL_t1, MSFT_t2>>}

SignalDeleteCalls ==
    {[kind |-> "delete_signals_by_ticker", ticker |-> k] : k \in {"AAPL", "MSFT"}}
    \cup {[kind |-> "delete_signals_by_time_range", start_ts |-> "t1", end_ts |-> d] :
            d \in {"t1", "t2"}}
    \cup {[kind |-> "delete_by_id", model |-> "signal", id |-> 1]}

ContributionCalls ==
    {[kind |-> "add_signal_contribution", dto |-> SignalContribDTO(g, 1, 1)] :
        g \in {1, 2}}

NextSignalDeleteSeq ==
    \E p \in {"p1"} :
        \/ \E c \in {OldArticle} \cup ContributionCalls \cup SignalDeleteCalls :
              AllIdle /\ Begin(p, c, FirstStep(c), MaxCallsSignalDelete)
        \/ \E ps \in SignalLists :
              AllIdle /\ insert_empty(p, [kind |-> "insert", points |-> ps],
                                      MaxCallsSignalDelete)
        \/ \E ps \in SignalLists \ {<<>>} :
              AllIdle /\ Begin(p, [kind |-> "insert", points |-> ps], "insert:flush",
                               MaxCallsSignalDelete)
        \/ \E c \in StoredEntities("signal") :
              AllIdle /\ Begin(p, c, FirstStep(c), MaxCallsSignalDelete)
        \/ upsert_by_url_query(p)
        \/ upsert_by_url_insert(p)
        \/ upsert_by_url_update(p)
        \/ insert_flush(p)
        \/ add_signal_contribution_flush(p)
        \/ delete_signals_by_ticker_delete(p)
        \/ delete_signals_by_time_range_delete(p)
        \/ delete_by_id_get(p)
        \/ delete_flush(p)
        \/ Commit(p)

SpecSignalDeleteSeq == Init /\ [][NextSignalDeleteSeq]_vars

SignalDeletes ==
    {"delete", "delete_by_id", "delete_signals_by_ticker", "delete_signals_by_time_range"}

\* C12: after a call has deleted a signal, no signal_contrib row references
\* that signal, and the call deleted or changed no article.
C12_DeletedSignalLeavesNoContribution ==
    (/\ last.status = "returned"
     /\ last.call.kind \in SignalDeletes
     /\ last.writes["signal"].del # EmptyBag) =>
        /\ \A g \in Rows(last.writes["signal"].del) :
              /\ \A r \in Rows(db["signal_contrib"]) : r.signal_id # g.id
              /\ \A r \in Rows(db["signal"]) : r.id # g.id
        /\ last.writes["article"] = NoWrites

\* a delete by ticker removed a signal together with its contribution, and
\* the article the contribution named is still stored
C12_Witness ==
    /\ last.status = "returned"
    /\ last.call.kind = "delete_signals_by_ticker"
    /\ last.writes["signal"].del # EmptyBag
    /\ \E r \in Rows(last.writes["signal_contrib"].del) :
          \E a \in Rows(db["article"]) : a.id = r.article_id

SignalColumns ==
    {"ticker", "ts", "sentiment", "novelty", "velocity", "event_tags", "score"}

\* C13: insert(points) that returns has added Len(points) signal rows and
\* nothing else, deleting or replacing no row; the i-th id returned is the id
\* of the one stored row made of the i-th point, also when another stored
\* signal has the point's ticker and ts; insert(<<>>) returns the empty list
\* without opening a session.
C13_InsertAppendsSignals ==
    (last.status = "returned" /\ last.call.kind = "insert") =>
        LET points == last.call.points
            added == last.writes["signal"].ins
        IN  /\ \A t \in Tables \ {"signal"} : last.writes[t] = NoWrites
            /\ last.writes["signal"].del = EmptyBag
            /\ BagCardinality(added) = Len(points)
            /\ DOMAIN last.value = DOMAIN points
            /\ \A i, j \in DOMAIN points : i # j => last.value[i] # last.value[j]
            /\ \A i \in DOMAIN points :
                  /\ \E r \in Rows(added) :
                        /\ r.id = last.value[i]
                        /\ \A c \in SignalColumns : r[c] = points[i][c]
                  /\ Cardinality({r \in Rows(db["signal"]) : r.id = last.value[i]}) = 1
            /\ points = <<>> => last.sessions = <<>>

\* a list of two points was inserted while a signal with the ticker and ts of
\* its first point was already stored: both rows are there
C13_Witness ==
    /\ last.status = "returned"
    /\ last.call.kind = "insert"
    /\ Len(last.call.points) = 2
    /\ Cardinality({r \in Rows(db["signal"]) :
                       /\ r.ticker = last.call.points[1].ticker
                       /\ r.ts = last.call.points[1].ts}) = 2

--------------------------------------------------------------------------
\* models/mappers.py: canonicalize_url
\*
\* A URL is a string: here a sequence whose first element stands for the
\* characters up to the end of the path, as the record of its scheme, netloc
\* and path, and whose other elements are the characters that follow, one
\* element per character, percent escape or parameter name.

UrlHead(scheme, netloc, path) == [scheme |-> scheme, netloc |-> netloc, path |-> path]

\* str.lower() on the schemes and hosts used
Lower(x) ==
    CASE x = "HTTP" -> "http"
      [] x = "HTTPS" -> "https"
      [] x = "Example.com" -> "example.com"
      [] OTHER -> x

\* the position of the first x in s, 0 when there is none
RECURSIVE Find(_, _, _)
Find(s, x, i) ==
    IF i > Len(s) THEN 0 ELSE IF s[i] = x THEN i ELSE Find(s, x, i + 1)

Before(s, x) == IF Find(s, x, 1) = 0 THEN s ELSE SubSeq(s, 1, Find(s, x, 1) - 1)
After(s, x) == IF Find(s, x, 1) = 0 THEN <<>> ELSE SubSeq(s, Find(s, x, 1) + 1, Len(s))

\* s.split(sep)
RECURSIVE Split(_, _)
Split(s, sep) ==
    IF Find(s, sep, 1) = 0 THEN <<s>> ELSE <<Before(s, sep)>> \o Split(After(s, sep), sep)

\* sep.join(parts)
RECURSIVE Join(_, _)
Join(parts, sep) ==
    IF parts = <<>> THEN <<>>
    ELSE IF Len(parts) = 1 THEN parts[1]
    ELSE parts[1] \o sep \o Join(Tail(parts), sep)

\* urllib.parse.unquote of a query component
Unquote(s) == [i \in DOMAIN s |-> IF s[i] = "%26" THEN "&" ELSE s[i]]

InvalidIPv6URL == [cls |-> "ValueError", text |-> "Invalid IPv6 URL"]

\* urlparse raises ValueError on a netloc with an unmatched bracket
Unparsable(url) == url[1].netloc = "[::1"

\* urlparse(url): the fragment is split off at the first "#", then the query
\* at the first "?"; the scheme comes back in lower case
urlparse(url) ==
    LET rest == Tail(url)
        nofrag == Before(rest, "#")
    IN  [scheme |-> Lower(url[1].scheme), netloc |-> url[1].netloc,
         path |-> <<url[1].path>> \o Before(nofrag, "?"),
         query |-> After(nofrag, "?"),
         fragment |-> After(rest, "#")]

\* urlunparse(parsed): "?" and "#" are written only before a non-empty part
urlunparse(parsed) ==
    <<UrlHead(parsed.scheme, parsed.netloc, parsed.path[1])>> \o Tail(parsed.path)
    \o (IF parsed.query = <<>> THEN <<>> ELSE <<"?">> \o parsed.query)
    \o (IF parsed.fragment = <<>> THEN <<>> ELSE <<"#">> \o parsed.fragment)

\* the name=value pairs parse_qs keeps, in order: a pair without "=" or with
\* an empty value is skipped, name and value are unquoted
RECURSIVE QueryPairs(_)
QueryPairs(segments) ==
    IF segments = <<>> THEN <<>>
    ELSE LET nv == segments[1]
             keep == Find(nv, "=", 1) # 0 /\ After(nv, "=") # <<>>
         IN  (IF keep
              THEN <<[name |-> Unquote(Before(nv, "=")), value |-> Unquote(After(nv, "="))]>>
              ELSE <<>>) \o QueryPairs(Tail(segments))

\* parse_qs(query) as the list of the dict's items: one item per name, in the
\* order of first appearance, with the list of the name's values
RECURSIVE GroupByName(_, _)
GroupByName(pairs, items) ==
    IF pairs = <<>> THEN items
    ELSE LET pair == pairs[1]
             at == {i \in DOMAIN items : items[i].name = pair.name}
         IN  GroupByName(Tail(pairs),
                IF at = {}
                THEN Append(items, [name |-> pair.name, values |-> <<pair.value>>])
                ELSE [i \in DOMAIN items |->
                        IF i \in at
                        THEN [items[i] EXCEPT !.values = Append(@, pair.value)]
                        ELSE items[i]])

parse_qs(query) == GroupByName(QueryPairs(Split(query, "&")), <<>>)

utm_params ==
    {<<"utm_source">>, <<"utm_medium">>, <<"utm_campaign">>, <<"utm_term">>,
     <<"utm_content">>}

\* query_params.pop(param, None) for each of utm_params
WithoutUtm(items) == SelectSeq(items, LAMBDA item : item.name \notin utm_params)

\* "&".join([f"{k}={v[0]}" for k, v in query_params.items() if v])
new_query(items) ==
    Join([i \in DOMAIN items |-> items[i].name \o <<"=">> \o items[i].values[1]],
         <<"&">>)

\* the outcome of canonicalize_url(url)
canonicalize_url(url) ==
    IF Unparsable(url)
    THEN [status |-> "raised", error |-> InvalidIPv6URL]
    ELSE LET parsed == urlparse(url)
             requeried ==
                 IF parsed.query # <<>>
                 THEN [parsed EXCEPT !.query = new_query(WithoutUtm(parse_qs(parsed.query)))]
                 ELSE parsed
         IN  [status |-> "returned",
              value |-> urlunparse([requeried EXCEPT !.fragment = <<>>])]

--------------------------------------------------------------------------
\* Calls of the mapping functions: a process holds the arguments in call and
\* collects the outcomes of its applications in found

\* all sequences over S of length at most n
SeqsUpTo(S, n) == UNION {[1..k -> S] : k \in 0..n}

\* the state in which process p1 is about to apply a function to one of inputs
MapperInit(inputs, first) ==
    /\ db = [t \in Tables |-> EmptyBag]
    /\ id_seq = [article |-> 0, signal |-> 0]
    /\ \E c \in inputs : call = [p \in Procs |-> IF p = "p1" THEN c ELSE NoCall]
    /\ pc = [p \in Procs |-> IF p = "p1" THEN first ELSE "idle"]
    /\ found = [p \in Procs |-> <<>>]
    /\ tx = [p \in Procs |-> EmptyTx]
    /\ seen = [p \in Procs |-> {}]
    /\ calls = 1
    /\ first_id = [u \in Urls |-> 0]
    /\ last = NoOutcome

MaxUrlTokens == 4

UrlHeads ==
    {UrlHead("https", "example.com", "/news"), UrlHead("HTTP", "Example.com", "/news"),
     UrlHead("http", "[::1", "/news")}

UrlChars == {"?", "#", "&", "=", "a", "utm_source", "%26"}

UrlInputs ==
    {[kind |-> "canonicalize_url", url |-> <<h>> \o t] :
        h \in UrlHeads, t \in SeqsUpTo(UrlChars, MaxUrlTokens)}

\* canonical = canonicalize_url(url)
canonicalize_url_call(p) ==
    /\ pc[p] = "canonicalize_url"
    /\ found' = [found EXCEPT ![p] = <<canonicalize_url(call[p].url)>>]
    /\ pc' = [pc EXCEPT ![p] =
                IF canonicalize_url(call[p].url).status = "returned"
                THEN "canonicalize_url:again" ELSE "done"]
    /\ UNCHANGED <<db, id_seq, call, tx, seen, calls, first_id, last>>

\* the caller canonicalizes the canonical URL once more
canonicalize_url_again(p) ==
    /\ pc[p] = "canonicalize_url:again"
    /\ found' = [found EXCEPT ![p] = Append(@, canonicalize_url(found[p][1].value))]
    /\ pc' = [pc EXCEPT ![p] = "done"]
    /\ UNCHANGED <<db, id_seq, call, tx, seen, calls, first_id, last>>

InitCanonicalizeUrl == MapperInit(UrlInputs, "canonicalize_url")

NextCanonicalizeUrl ==
    \E p \in Procs : canonicalize_url_call(p) \/ canonicalize_url_again(p)

SpecCanonicalizeUrl == InitCanonicalizeUrl /\ [][NextCanonicalizeUrl]_vars

\* C14 as claimed: canonicalizing a canonical URL gives the same URL.
C14_CanonicalizeUrlIdempotent ==
    \A p \in Procs :
        (pc[p] = "done" /\ call[p].kind = "canonicalize_url" /\ Len(found[p]) = 2) =>
            /\ found[p][2].status = "returned"
            /\ found[p][2].value = found[p][1].value

\* the parameters of a query string as written: the text between the "&"s
RawParams(query) == IF query = <<>> THEN <<>> ELSE Split(query, "&")

\* C15 as claimed: the canonical form of a parsable URL has no fragment and
\* no utm_* parameter, and has the scheme, host and path of the URL and its
\* other query parameters as written, in their order.
C15_CanonicalizeUrlKeepsTheRest ==
    \A p \in Procs :
        (/\ call[p].kind = "canonicalize_url"
         /\ found[p] # <<>>
         /\ found[p][1].status = "returned") =>
            LET u == call[p].url
                r == found[p][1].value
            IN  /\ urlparse(r).fragment = <<>>
                /\ r[1] = u[1]
                /\ urlparse(r).path = urlparse(u).path
                /\ RawParams(urlparse(r).query) =
                      SelectSeq(RawParams(urlparse(u).query),
                                LAMBDA nv : Before(nv, "=") \notin utm_params)

\* C16 as claimed: canonicalize_url raises for no input, and gives back an
\* input that cannot be parsed.
C16_CanonicalizeUrlNeverRaises ==
    \A p \in Procs :
        (call[p].kind = "canonicalize_url" /\ found[p] # <<>>) =>
            /\ found[p][1].status = "returned"
            /\ Unparsable(call[p].url) => found[p][1].value = call[p].url

--------------------------------------------------------------------------
\* models/mappers.py: clean_text
\*
\* A text is a sequence of characters; an HTML entity counts as one element.

\* Python's None, as a value no text equals
None == <<"None">>

\* html.unescape(text)
unescape(text) ==
    [i \in DOMAIN text |->
        CASE text[i] = "&lt;" -> "<"
          [] text[i] = "&gt;" -> ">"
          [] OTHER -> text[i]]

\* re.sub(r"<[^>]+>", "", text): from left to right, a "<" followed by at
\* least one character other than ">" and then by ">" is removed with them
RECURSIVE StripTags(_)
StripTags(s) ==
    IF s = <<>> THEN <<>>
    ELSE IF s[1] = "<" /\ Find(s, ">", 2) > 2
    THEN StripTags(SubSeq(s, Find(s, ">", 2) + 1, Len(s)))
    ELSE <<s[1]>> \o StripTags(Tail(s))

\* the characters \s matches and str.strip() removes
Whitespace == {" ", "\n"}

RECURSIVE LStrip(_)
LStrip(s) == IF s # <<>> /\ s[1] \in Whitespace THEN LStrip(Tail(s)) ELSE s

RECURSIVE RStrip(_)
RStrip(s) ==
    IF s # <<>> /\ s[Len(s)] \in Whitespace THEN RStrip(SubSeq(s, 1, Len(s) - 1)) ELSE s

StripLeadingOnly(s) == LStrip(s)

\* str.strip()
Strip(s) == RStrip(LStrip(s))

\* re.sub(r"\s+", " ", text)
RECURSIVE Collapse(_)
Collapse(s) ==
    IF s = <<>> THEN <<>>
    ELSE IF s[1] \in Whitespace THEN <<" ">> \o Collapse(LStrip(s))
    ELSE <<s[1]>> \o Collapse(Tail(s))

clean_text(text) ==
    IF text = <<>> THEN None
    ELSE LET cleaned == Strip(Collapse(StripTags(unescape(text))))
         IN  IF cleaned # <<>> THEN cleaned ELSE None

MaxTextLen == 6

TextChars == {"<", ">", "x", " ", "\n", "&lt;", "&gt;"}

TextInputs ==
    {[kind |-> "clean_text", text |-> t] : t \in SeqsUpTo(TextChars, MaxTextLen)}

\* cleaned = clean_text(text)
clean_text_call(p) ==
    /\ pc[p] = "clean_text"
    /\ found' = [found EXCEPT ![p] =
                    <<[status |-> "returned", value |-> clean_text(call[p].text)]>>]
    /\ pc' = [pc EXCEPT ![p] = "done"]
    /\ UNCHANGED <<db, id_seq, call, tx, seen, calls, first_id, last>>

InitCleanText == MapperInit(TextInputs, "clean_text")

NextCleanText == \E p \in Procs : clean_text_call(p)

SpecCleanText == InitCleanText /\ [][NextCleanText]_vars

\* s holds a "<", then one or more characters other than ">", then a ">"
HasTag(s) ==
    \E i, j \in DOMAIN s :
        /\ s[i] = "<" /\ s[j] = ">" /\ j > i + 1
        /\ \A k \in (i + 1)..(j - 1) : s[k] # ">"

\* C17: clean_text gives None or a non-empty text without a tag, without two
\* whitespace characters in a row and without whitespace at either end; it
\* gives None exactly when unescaping, removing the tags and trimming leave
\* nothing.
C17_CleanTextIsCleanOrNone ==
    \A p \in Procs :
        (call[p].kind = "clean_text" /\ found[p] # <<>>) =>
            LET v == found[p][1].value
            IN  /\ found[p][1].status = "returned"
                /\ v # None =>
                      /\ v # <<>>
                      /\ ~HasTag(v)
                      /\ \A i \in 1..(Len(v) - 1) :
                            ~(v[i] \in Whitespace /\ v[i + 1] \in Whitespace)
                      /\ v[1] \notin Whitespace /\ v[Len(v)] \notin Whitespace
                /\ v = None <=> Strip(StripTags(unescape(call[p].text))) = <<>>

\* a text with an escaped tag, a tag and a line break was cleaned to "x x"
C17_Witness ==
    \E p \in Procs :
        /\ call[p].kind = "clean_text"
        /\ found[p] # <<>>
        /\ \E i \in DOMAIN call[p].text : call[p].text[i] = "&lt;"
        /\ \E i \in DOMAIN call[p].text : call[p].text[i] = "\n"
        /\ found[p][1].value = <<"x">>

--------------------------------------------------------------------------
\* models/mappers.py: generate_article_hash

\* hashlib.sha1(hash_string.encode("utf-8")).hexdigest(): the digest stands
\* for its 40 hexadecimal digits; different strings have different digests
sha1_hexdigest(hash_string) == <<[sha1 |-> hash_string, hexdigits |-> 40]>>

\* the outcome of generate_article_hash(title, url)
generate_article_hash(title, url) ==
    IF title = <<>> \/ url = <<>>
    THEN [status |-> "returned", value |-> <<>>]
    ELSE IF Unparsable(url)
    THEN [status |-> "raised", error |-> InvalidIPv6URL]
    ELSE LET host == Lower(urlparse(url).netloc)
             clean_title == IF clean_text(title) # None THEN clean_text(title) ELSE <<>>
             hash_string == clean_title \o <<":">> \o <<host>>
         IN  [status |-> "returned", value |-> sha1_hexdigest(hash_string)]

Titles ==
    {<<>>, <<"x">>, <<"y">>, <<"x", " ", "y">>, <<"x", "\n", " ", "y">>, <<" ">>,
     <<"<", "b", ">">>, <<"<", "b", ">", "x">>, <<"&lt;", "b", "&gt;", "x">>}

HashUrls ==
    {<<>>} \cup {<<h>> : h \in UrlHeads \cup {UrlHead("https", "other.com", "/news")}}
    \cup {<<UrlHead("https", "example.com", "/news"), "a">>,
          <<UrlHead("https", "example.com", "/news"), "?", "a", "=", "a">>}

HashInputs ==
    {[kind |-> "generate_article_hash", title |-> t, url |-> u] :
        t \in Titles, u \in HashUrls}

\* hash_value = generate_article_hash(title, url)
generate_article_hash_call(p) ==
    /\ pc[p] = "generate_article_hash"
    /\ found' = [found EXCEPT ![p] =
                    <<generate_article_hash(call[p].title, call[p].url)>>]
    /\ pc' = [pc EXCEPT ![p] = "done"]
    /\ UNCHANGED <<db, id_seq, call, tx, seen, calls, first_id, last>>

\* two processes, each about to hash a title and a URL
InitArticleHash ==
    /\ db = [t \in Tables |-> EmptyBag]
    /\ id_seq = [article |-> 0, signal |-> 0]
    /\ call \in [Procs -> HashInputs]
    /\ pc = [p \in Procs |-> "generate_article_hash"]
    /\ found = [p \in Procs |-> <<>>]
    /\ tx = [p \in Procs |-> EmptyTx]
    /\ seen = [p \in Procs |-> {}]
    /\ calls = 2
    /\ first_id = [u \in Urls |-> 0]
    /\ last = NoOutcome

NextArticleHash == \E p \in Procs : generate_article_hash_call(p)

SpecArticleHash == InitArticleHash /\ [][NextArticleHash]_vars

Hashed(p) == call[p].kind = "generate_article_hash" /\ found[p] # <<>>

\* C18 as claimed: the result is the empty string when the title or the URL
\* is empty; otherwise it is the digest of the cleaned title and the
\* lower-case host, except that a title of which cleaning leaves nothing is
\* not hashed.
C18_HashOfCleanTitleAndHost ==
    \A p \in Procs :
        Hashed(p) =>
            LET title == call[p].title
                url == call[p].url
            IN  /\ found[p][1].status = "returned"
                /\ (title = <<>> \/ url = <<>>) => found[p][1].value = <<>>
                /\ (title # <<>> /\ url # <<>> /\ clean_text(title) = None) =>
                      found[p][1].value = <<>>
                /\ (title # <<>> /\ url # <<>> /\ clean_text(title) # None) =>
                      found[p][1].value =
                          sha1_hexdigest(clean_text(title) \o <<":">>
                                         \o <<Lower(url[1].netloc)>>)

\* C19 as claimed: for non-empty arguments the two digests differ when the
\* titles differ or the URLs differ, unless the titles are equal and the URLs
\* have the same host.
C19_HashesDifferWhenInputsDiffer ==
    \A p, q \in Procs :
        (/\ Hashed(p) /\ Hashed(q)
         /\ found[p][1].status = "returned" /\ found[q][1].status = "returned"
         /\ call[p].title # <<>> /\ call[p].url # <<>>
         /\ call[q].title # <<>> /\ call[q].url # <<>>
         /\ call[p].title # call[q].title \/ call[p].url # call[q].url
         /\ ~(/\ call[p].title = call[q].title
              /\ call[p].url[1].netloc = call[q].url[1].netloc)) =>
            found[p][1].value # found[q][1].value

--------------------------------------------------------------------------
\* models/mappers.py: calculate_credibility
\*
\* An item is the record of the IngestItem fields the function reads; author
\* and license are None or a text, url is a URL whose scheme the AnyUrl
\* field holds in lower case.

\* source_credibility.get(item.source, 50.0)
base_score(source) ==
    CASE source = "sec" -> 90
      [] source = "gdelt" -> 70
      [] source = "stocktwits" -> 40
      [] source = "twitter" -> 35
      [] source = "reddit" -> 30
      [] OTHER -> 50

\* "if item.author:", "if item.license:": neither None nor empty
Truthy(x) == x # None /\ x # <<>>

\* str(item.url).startswith("https://")
StartsWithHttps(url) == url[1].scheme = "https"

adjustmentsPenalizingLicense(item) ==
    (IF Truthy(item.author) THEN 5 ELSE 0)
    + (IF Truthy(item.license) THEN 0 - 3 ELSE 0)
    + (IF StartsWithHttps(item.url) THEN 2 ELSE 0)

adjustments(item) ==
    (IF Truthy(item.author) THEN 5 ELSE 0)
    + (IF Truthy(item.license) THEN 3 ELSE 0)
    + (IF StartsWithHttps(item.url) THEN 2 ELSE 0)

Min(a, b) == IF a <= b THEN a ELSE b
Max(a, b) == IF a >= b THEN a ELSE b

\* final_score = min(100.0, max(0.0, base_score + adjustments))
calculate_credibility(item) ==
    Min(100, Max(0, base_score(item.source) + adjustments(item)))

Sources == {"gdelt", "sec", "stocktwits", "twitter", "reddit"}

Items ==
    [source : Sources,
     author : {None, <<>>, <<"S", "E", "C">>},
     license : {None, <<>>, <<"C", "C", "0">>},
     url : {<<UrlHead(sch, "sec.gov", "/filing")>> : sch \in {"https", "http", "ftp"}}]

CredibilityInputs == {[kind |-> "calculate_credibility", item |-> i] : i \in Items}

\* credibility = calculate_credibility(item)
calculate_credibility_call(p) ==
    /\ pc[p] = "calculate_credibility"
    /\ found' = [found EXCEPT ![p] =
                    <<[status |-> "returned", value |-> calculate_credibility(call[p].item)]>>]
    /\ pc' = [pc EXCEPT ![p] = "done"]
    /\ UNCHANGED <<db, id_seq, call, tx, seen, calls, first_id, last>>

InitCredibility == MapperInit(CredibilityInputs, "calculate_credibility")

NextCredibility == \E p \in Procs : calculate_credibility_call(p)

SpecCredibility == InitCredibility /\ [][NextCredibility]_vars

\* the items that are item with an author, a license or https added
Improved(item) ==
    {i \in Items :
        /\ i.source = item.source
        /\ Truthy(item.author) => i.author = item.author
        /\ Truthy(item.license) => i.license = item.license
        /\ StartsWithHttps(item.url) => i.url = item.url}

\* C20: the score is the base score of the source (sec 90, gdelt 70,
\* stocktwits 40, twitter 35, reddit 30) plus 5 for an author, 3 for a
\* license and 2 for an https URL, kept within 0..100; it lies in 0..100, and
\* an item with an author, a license or https added scores no lower.
C20_CredibilityIsBasePlusAdjustments ==
    \A p \in Procs :
        (call[p].kind = "calculate_credibility" /\ found[p] # <<>>) =>
            LET item == call[p].item
                score == found[p][1].value
                base == [sec |-> 90, gdelt |-> 70, stocktwits |-> 40, twitter |-> 35,
                         reddit |-> 30][item.source]
                sum == base + (IF item.author \notin {None, <<>>} THEN 5 ELSE 0)
                            + (IF item.license \notin {None, <<>>} THEN 3 ELSE 0)
                            + (IF item.url[1].scheme = "https" THEN 2 ELSE 0)
            IN  /\ score = (IF sum > 100 THEN 100 ELSE IF sum < 0 THEN 0 ELSE sum)
                /\ score \in 0..100
                /\ \A i \in Improved(item) : calculate_credibility(i) >= score

\* an SEC filing with author, license and https scores the full 100
C20_Witness ==
    \E p \in Procs :
        /\ call[p].kind = "calculate_credibility"
        /\ found[p] # <<>>
        /\ call[p].item.source = "sec"
        /\ Truthy(call[p].item.author) /\ Truthy(call[p].item.license)
        /\ StartsWithHttps(call[p].item.url)
        /\ found[p][1].value = 100

--------------------------------------------------------------------------
\* Timestamps of the DTOs (models/dto.py)
\*
\* A datetime is its wall-clock reading, in hours, and its tzinfo: None for a
\* naive one, else a fixed offset such as timezone(timedelta(hours=-5)).

utc == <<"UTC">>

\* tz.utcoffset(None), in hours
utcoffset(tz) ==
    CASE tz = <<"UTC-05:00">> -> 0 - 5
      [] tz = <<"UTC+02:00">> -> 2
      [] OTHER -> 0

\* the instant an aware datetime denotes, in hours of UTC
utctime(v) == v.wall - utcoffset(v.tzinfo)

replace_tzinfo(v, tz) == [wall |-> v.wall, tzinfo |-> tz]

\* v.astimezone(tz): the same instant read on the clock of tz
astimezone(v, tz) == [wall |-> utctime(v) + utcoffset(tz), tzinfo |-> tz]

NaiveDatetimeError == [cls |-> "ValueError", text |-> "datetime must be timezone-aware"]

\* the field validator the four classes share
validate_timezone_aware(v) ==
    IF v.tzinfo = None
    THEN [status |-> "raised", error |-> NaiveDatetimeError]
    ELSE [status |-> "returned", value |-> astimezone(v, utc)]

\* the fields of each class that carry the validator
TimestampFields ==
    [IngestItem |-> {"published_at", "retrieved_at"}, ArticleDTO |-> {"published_at"},
     SignalDTO |-> {"ts"}, PriceBarDTO |-> {"ts"}]

\* cls(**data) with every other field valid: pydantic runs the validator on
\* each timestamp field, collects the errors of all fields, and raises one
\* ValidationError if there are any; otherwise the object holds the values
\* the validators returned
model_init(cls, data) ==
    LET validated == [f \in TimestampFields[cls] |-> validate_timezone_aware(data[f])]
        errors == {f \in TimestampFields[cls] : validated[f].status = "raised"}
    IN  IF errors # {}
        THEN [status |-> "raised",
              error |-> [cls |-> "ValidationError", text |-> NaiveDatetimeError.text,
                         loc |-> errors]]
        ELSE [status |-> "returned",
              value |-> [f \in TimestampFields[cls] |-> validated[f].value]]

WallClocks == 0..2
Timezones == {utc, <<"UTC-05:00">>, <<"UTC+02:00">>}
Datetimes == [wall : WallClocks, tzinfo : {None} \cup Timezones]

DtoInputs ==
    {[kind |-> "model_init", cls |-> cls, data |-> d] :
        cls \in DOMAIN TimestampFields,
        d \in UNION {[TimestampFields[c] -> Datetimes] : c \in DOMAIN TimestampFields}}

\* obj = cls(**data)
model_init_call(p) ==
    /\ pc[p] = "model_init"
    /\ found' = [found EXCEPT ![p] = <<model_init(call[p].cls, call[p].data)>>]
    /\ pc' = [pc EXCEPT ![p] = "done"]
    /\ UNCHANGED <<db, id_seq, call, tx, seen, calls, first_id, last>>

InitDto ==
    MapperInit({c \in DtoInputs : DOMAIN c.data = TimestampFields[c.cls]}, "model_init")

NextDto == \E p \in Procs : model_init_call(p)

SpecDto == InitDto /\ [][NextDto]_vars

\* C21: constructing one of the four classes with a naive timestamp in any
\* timestamp field raises a validation error and yields no object; with
\* aware timestamps the object's fields are in UTC and denote the instants
\* that were passed.
C21_NaiveRejectedAwareNormalizedToUtc ==
    \A p \in Procs :
        (call[p].kind = "model_init" /\ found[p] # <<>>) =>
            LET data == call[p].data
                out == found[p][1]
                hours == (<<"UTC">> :> 0) @@ (<<"UTC-05:00">> :> 0 - 5)
                         @@ (<<"UTC+02:00">> :> 2)
            IN  IF \E f \in DOMAIN data : data[f].tzinfo = None
                THEN /\ out.status = "raised"
                     /\ out.error.cls = "ValidationError"
                     /\ "value" \notin DOMAIN out
                ELSE /\ out.status = "returned"
                     /\ \A f \in DOMAIN data :
                            /\ out.value[f].tzinfo = <<"UTC">>
                            /\ out.value[f].wall = data[f].wall - hours[data[f].tzinfo]

\* an IngestItem published at 01:00 in UTC-5 holds 06:00 UTC
C21_Witness ==
    \E p \in Procs :
        /\ call[p].kind = "model_init" /\ call[p].cls = "IngestItem"
        /\ found[p] # <<>>
        /\ call[p].data["published_at"] = [wall |-> 1, tzinfo |-> <<"UTC-05:00">>]
        /\ found[p][1].status = "returned"
        /\ found[p][1].value["published_at"] = [wall |-> 6, tzinfo |-> <<"UTC">>]

--------------------------------------------------------------------------
\* TickerRepository.get_active_tickers (repos/ticker.py)
\*
\* The ticker table is reference data loaded by a batch job; the repository
\* reads it in a read-only session.  valid_from and valid_to are None (NULL)
\* or a datetime <<t>> with t one of the instants t1 < t2 < t3.

Dates == {<<"t1">>, <<"t2">>, <<"t3">>}

Symbols == {"AAPL", "MSFT"}

TickerRows == [symbol : Symbols, valid_from : Dates \cup {None}, valid_to : Dates \cup {None}]

\* the WHERE clause built from as_of_date
ActiveFilter(t, as_of_date) ==
    IF as_of_date # None
    THEN /\ (t.valid_from = None \/ Instant(t.valid_from[1]) <= Instant(as_of_date[1]))
         /\ (t.valid_to = None \/ Instant(t.valid_to[1]) > Instant(as_of_date[1]))
    ELSE t.valid_to = None

\* query.all() in the read-only session
get_active_tickers_query(p) ==
    /\ pc[p] = "get_active_tickers"
    /\ found' = [found EXCEPT ![p] =
                    <<[status |-> "returned",
                       value |-> {t \in Rows(db["ticker"]) :
                                     ActiveFilter(t, call[p].as_of_date)}]>>]
    /\ pc' = [pc EXCEPT ![p] = "done"]
    /\ UNCHANGED <<db, id_seq, call, tx, seen, calls, first_id, last>>

\* the tables with a ticker table in which symbol is the primary key; p1
\* calls get_active_tickers at the instant `now`
InitTicker ==
    /\ \E present \in SUBSET Symbols, row \in [Symbols -> TickerRows] :
          /\ \A s \in Symbols : row[s].symbol = s
          /\ db = [t \in Tables \cup {"ticker"} |->
                      IF t = "ticker" THEN SetToBag({row[s] : s \in present})
                      ELSE EmptyBag]
    /\ id_seq = [article |-> 0, signal |-> 0]
    /\ \E d \in Dates \cup {None}, n \in Dates :
          call = [p \in Procs |->
                     IF p = "p1"
                     THEN [kind |-> "get_active_tickers", as_of_date |-> d, now |-> n]
                     ELSE NoCall]
    /\ pc = [p \in Procs |-> IF p = "p1" THEN "get_active_tickers" ELSE "idle"]
    /\ found = [p \in Procs |-> <<>>]
    /\ tx = [p \in Procs |-> EmptyTx]
    /\ seen = [p \in Procs |-> {}]
    /\ calls = 1
    /\ first_id = [u \in Urls |-> 0]
    /\ last = NoOutcome

NextTicker == \E p \in Procs : get_active_tickers_query(p)

SpecTicker == InitTicker /\ [][NextTicker]_vars

\* C22 as claimed: the result is exactly the set of tickers that have begun
\* (valid_from null or <= T) and not ended (valid_to null or > T) at T, the
\* as_of_date passed or else the current time.
C22_ActiveAtAsOfDateOrNow ==
    \A p \in Procs :
        (call[p].kind = "get_active_tickers" /\ found[p] # <<>>) =>
            LET T == IF call[p].as_of_date # None THEN call[p].as_of_date ELSE call[p].now
                order == (<<"t1">> :> 1) @@ (<<"t2">> :> 2) @@ (<<"t3">> :> 3)
            IN  found[p][1].value =
                    {t \in BagToSet(db["ticker"]) :
                        /\ (t.valid_from = None \/ order[t.valid_from] <= order[T])
                        /\ (t.valid_to = None \/ order[t.valid_to] > order[T])}

--------------------------------------------------------------------------
\* load_settings (settings.py)
\*
\* The model keeps four Settings fields: postgres_url, which is required,
\* and the three weights with their defaults; weights are in tenths.  The
\* process environment is a function from variable names to strings, a YAML
\* file is the dict yaml.safe_load returns (a function from keys to values),
\* and the file system maps the paths that exist to their contents.  There
\* is no .env file, and sources.yaml and logging.yaml, which set no field,
\* are left out.

SettingsFields == {"postgres_url", "w_sent", "w_novelty", "w_velocity"}

WeightFields == {"w_sent", "w_novelty", "w_velocity"}

FieldDefaults == [w_sent |-> 4, w_novelty |-> 3, w_velocity |-> 3]

\* key.upper()
Upper(key) ==
    CASE key = "postgres_url" -> "POSTGRES_URL"
      [] key = "w_sent" -> "W_SENT"
      [] key = "w_novelty" -> "W_NOVELTY"
      [] key = "w_velocity" -> "W_VELOCITY"
      [] key = "scoring" -> "SCORING"
      [] OTHER -> key

\* the variables pydantic-settings reads for field f: with
\* case_sensitive=False it compares the names in lower case
EnvNamesOf(environ, f) == {n \in DOMAIN environ : n = f \/ n = Upper(f)}

\* float(s), in tenths
ParseFloat(s) ==
    CASE s = "0.5" -> 5
      [] s = "0.7" -> 7
      [] s = "1.5" -> 15
      [] OTHER -> 0

\* the value a field takes from the string of its environment variable; a
\* PostgresDsn keeps the text of a well-formed DSN
ParseField(f, s) == IF f \in WeightFields THEN ParseFloat(s) ELSE s

\* "if not (0.0 <= v <= 1.0): raise ValueError"
validate_weights(v) == 0 <= v /\ v <= 10

\* Settings(): each field from its environment variable, else its default;
\* a required field without a variable and a weight that fails its
\* validator are the errors of one ValidationError
Settings(environ) ==
    LET FromEnv(f) == ParseField(f, environ[CHOOSE n \in EnvNamesOf(environ, f) : TRUE])
        missing == {f \in SettingsFields \ DOMAIN FieldDefaults : EnvNamesOf(environ, f) = {}}
        invalid == {f \in WeightFields :
                       /\ EnvNamesOf(environ, f) # {}
                       /\ ~validate_weights(FromEnv(f))}
    IN  IF missing \cup invalid # {}
        THEN [status |-> "raised",
              error |-> [cls |-> "ValidationError", loc |-> missing \cup invalid]]
        ELSE [status |-> "returned",
              value |-> [f \in SettingsFields |->
                            IF EnvNamesOf(environ, f) # {} THEN FromEnv(f)
                            ELSE FieldDefaults[f]]]

\* load_yaml_config(file_path): {} for a file that does not exist
load_yaml_config(files, file_path) ==
    IF file_path \in DOMAIN files THEN files[file_path] ELSE <<>>

\* d[key] = value
SetItem(d, key, value) == (key :> value) @@ d

ScoringPath == "configs/scoring.yaml"

\* the overrides taken from scoring.yaml in the config directory
ConfigDirOverrides(files) ==
    IF ScoringPath \notin DOMAIN files THEN <<>>
    ELSE LET scoring_data == load_yaml_config(files, ScoringPath)
             weights == IF "weights" \in DOMAIN scoring_data
                        THEN scoring_data["weights"] ELSE <<>>
             names == [sentiment |-> "w_sent", novelty |-> "w_novelty", velocity |-> "w_velocity"]
             set == {k \in DOMAIN names : k \in DOMAIN weights}
             w == [f \in {names[k] : k \in set} |->
                      weights[CHOOSE k \in set : names[k] = f]]
         IN  SetItem(w, "scoring", scoring_data)

\* "for yaml_path in yaml_paths: ... yaml_overrides[key] = value"
RECURSIVE CustomOverrides(_, _, _)
CustomOverrides(yaml_overrides, files, yaml_paths) ==
    IF yaml_paths = <<>> THEN yaml_overrides
    ELSE CustomOverrides(load_yaml_config(files, yaml_paths[1]) @@ yaml_overrides,
                         files, Tail(yaml_paths))

\* "if env_key not in os.environ: setattr(settings, key, value)", and
\* setattr for the keys that are no attribute of the settings yet
ApplyOverrides(settings, yaml_overrides, environ) ==
    [key \in DOMAIN settings \cup DOMAIN yaml_overrides |->
        IF key \notin DOMAIN yaml_overrides THEN settings[key]
        ELSE IF key \in DOMAIN settings /\ Upper(key) \in DOMAIN environ THEN settings[key]
        ELSE yaml_overrides[key]]

load_settings(environ, files, yaml_paths) ==
    LET yaml_overrides == CustomOverrides(ConfigDirOverrides(files), files, yaml_paths)
        settings == Settings(environ)
    IN  IF settings.status = "raised" THEN settings
        ELSE [status |-> "returned",
              value |-> ApplyOverrides(settings.value, yaml_overrides, environ)]

\* the environments: the DSN set or not, W_SENT set under its upper-case or
\* its lower-case name or not at all, W_NOVELTY set or not
Environments ==
    {dsn @@ sent @@ novelty :
        dsn \in {<<>>, "POSTGRES_URL" :> "postgresql://env/db"},
        sent \in {<<>>} \cup {n :> v : n \in {"W_SENT", "w_sent"}, v \in {"0.7", "1.5"}},
        novelty \in {<<>>, "W_NOVELTY" :> "0.5"}}

ScoringFiles ==
    {[weights |-> s @@ v] :
        s \in {<<>>, "sentiment" :> 9, "sentiment" :> 15},
        v \in {<<>>, "velocity" :> 2}}

CustomFiles ==
    [a |-> "w_sent" :> 6,
     b |-> ("w_sent" :> 8) @@ ("postgres_url" :> "postgresql://yaml/db"),
     c |-> "w_velocity" :> 12]

FileSystems ==
    {CustomFiles} \cup {(ScoringPath :> s) @@ CustomFiles : s \in ScoringFiles}

MaxYamlPaths == 2

YamlPaths == SeqsUpTo(DOMAIN CustomFiles \cup {"missing"}, MaxYamlPaths)

LoadInputs ==
    {[kind |-> "load_settings", environ |-> e, files |-> fs, yaml_paths |-> ps] :
        e \in Environments, fs \in FileSystems, ps \in YamlPaths}

\* settings = load_settings(yaml_paths)
load_settings_call(p) ==
    /\ pc[p] = "load_settings"
    /\ found' = [found EXCEPT ![p] =
                    <<load_settings(call[p].environ, call[p].files, call[p].yaml_paths)>>]
    /\ pc' = [pc EXCEPT ![p] = "done"]
    /\ UNCHANGED <<db, id_seq, call, tx, seen, calls, first_id, last>>

InitLoadSettings == MapperInit(LoadInputs, "load_settings")

NextLoadSettings == \E p \in Procs : load_settings_call(p)

SpecLoadSettings == InitLoadSettings /\ [][NextLoadSettings]_vars

\* C23 as claimed: for every field, the value returned is that of the
\* environment variable named after the field if it is set; else the value
\* a loaded YAML file supplies, the last file of yaml_paths that has it
\* before the config directory's scoring.yaml; else the default.  (Inputs
\* whose environment holds a weight outside 0..1 are set aside.)
C23_EnvThenYamlThenDefault ==
    \A p \in Procs :
        (call[p].kind = "load_settings" /\ found[p] # <<>>) =>
            LET env == call[p].environ
                fs == call[p].files
                paths == call[p].yaml_paths
                out == found[p][1]
                upper == [postgres_url |-> "POSTGRES_URL", w_sent |-> "W_SENT",
                          w_novelty |-> "W_NOVELTY", w_velocity |-> "W_VELOCITY"]
                tenths == ("0.5" :> 5) @@ ("0.7" :> 7) @@ ("1.5" :> 15)
                EnvName(f) == IF f \in DOMAIN env THEN f ELSE upper[f]
                InEnv(f) == f \in DOMAIN env \/ upper[f] \in DOMAIN env
                Supplying(f) == {i \in DOMAIN paths :
                                    /\ paths[i] \in DOMAIN fs
                                    /\ f \in DOMAIN fs[paths[i]]}
                LastSupplying(f) == CHOOSE i \in Supplying(f) : \A j \in Supplying(f) : j <= i
                weight == [w_sent |-> "sentiment", w_novelty |-> "novelty",
                           w_velocity |-> "velocity"]
                InConfigDir(f) ==
                    /\ f \in DOMAIN weight
                    /\ "configs/scoring.yaml" \in DOMAIN fs
                    /\ weight[f] \in DOMAIN fs["configs/scoring.yaml"]["weights"]
                defaults == [w_sent |-> 4, w_novelty |-> 3, w_velocity |-> 3]
                HasValue(f) ==
                    InEnv(f) \/ Supplying(f) # {} \/ InConfigDir(f) \/ f \in DOMAIN defaults
                Expected(f) ==
                    IF InEnv(f)
                    THEN (IF f \in DOMAIN weight THEN tenths[env[EnvName(f)]]
                          ELSE env[EnvName(f)])
                    ELSE IF Supplying(f) # {} THEN fs[paths[LastSupplying(f)]][f]
                    ELSE IF InConfigDir(f)
                    THEN fs["configs/scoring.yaml"]["weights"][weight[f]]
                    ELSE defaults[f]
                fields == DOMAIN upper
            IN  (\A f \in DOMAIN weight : InEnv(f) => tenths[env[EnvName(f)]] \in 0..10) =>
                    IF \A f \in fields : HasValue(f)
                    THEN /\ out.status = "returned"
                         /\ \A f \in fields : out.value[f] = Expected(f)
                    ELSE out.status = "raised"

\* C29 as claimed: a Settings object that load_settings returns has w_sent,
\* w_novelty and w_velocity within [0.0, 1.0], wherever the values came from.
C29_ReturnedWeightsWithinUnitInterval ==
    \A p \in Procs :
        (call[p].kind = "load_settings" /\ found[p] # <<>>
         /\ found[p][1].status = "returned") =>
            \A w \in {"w_sent", "w_novelty", "w_velocity"} :
                found[p][1].value[w] \in 0..10

--------------------------------------------------------------------------
\* get_settings / reset_settings (settings.py)
\*
\* The threads of one process share the module global _settings, kept here
\* in db beside the tables; id_seq counts the Settings objects constructed,
\* and the object load_settings creates n-th is <<"Settings", n>>.  A thread
\* can be preempted between the byte codes of get_settings: the test of the
\* global, the call of load_settings, the store of its result and the load
\* of the global for the return are separate steps.  `last` keeps, besides
\* the outcome of the call that finished last, the instances returned and
\* the runs of load_settings since the last reset.

MaxCallsSettings == 5

\* the environment a run of load_settings finds: with or without the
\* required POSTGRES_URL
ProcessEnvironments == {e \in Environments : DOMAIN e \subseteq {"POSTGRES_URL"}}

SettingsHistory(p, status, value, returned, earlier, loads, loaded) ==
    [proc |-> p, call |-> call[p], status |-> status, value |-> value,
     returned |-> returned, earlier |-> earlier, loads |-> loads, loaded |-> loaded]

InitSettings ==
    /\ db = [t \in Tables \cup {"_settings"} |-> IF t = "_settings" THEN None ELSE EmptyBag]
    /\ id_seq = [article |-> 0, signal |-> 0, Settings |-> 0]
    /\ pc = [p \in Procs |-> "idle"]
    /\ call = [p \in Procs |-> NoCall]
    /\ found = [p \in Procs |-> <<>>]
    /\ tx = [p \in Procs |-> EmptyTx]
    /\ seen = [p \in Procs |-> {}]
    /\ calls = 0
    /\ first_id = [u \in Urls |-> 0]
    /\ last = [proc |-> "none", call |-> NoCall, status |-> "none", value |-> None,
               returned |-> {}, earlier |-> {}, loads |-> 0, loaded |-> 0]

get_settings_without_test(p) ==
    /\ pc[p] = "get_settings"
    /\ pc' = [pc EXCEPT ![p] = "get_settings:load"]
    /\ UNCHANGED <<db, id_seq, call, found, tx, seen, calls, first_id, last>>

\* "if _settings is None:"
get_settings_test(p) ==
    /\ pc[p] = "get_settings"
    /\ pc' = [pc EXCEPT ![p] = IF db["_settings"] = None THEN "get_settings:load"
                                ELSE "get_settings:return"]
    /\ UNCHANGED <<db, id_seq, call, found, tx, seen, calls, first_id, last>>

\* "load_settings()": a new Settings object, or the ValidationError of
\* Settings(), which ends the call
get_settings_load(p) ==
    /\ pc[p] = "get_settings:load"
    /\ \E environ \in ProcessEnvironments :
          LET loaded == load_settings(environ, CustomFiles, <<>>)
          IN  IF loaded.status = "raised"
              THEN /\ last' = SettingsHistory(p, "raised", None, last.returned,
                                              last.earlier, last.loads + 1, last.loaded)
                   /\ pc' = [pc EXCEPT ![p] = "idle"]
                   /\ call' = [call EXCEPT ![p] = NoCall]
                   /\ UNCHANGED <<id_seq, found>>
              ELSE /\ id_seq' = [id_seq EXCEPT !["Settings"] = @ + 1]
                   /\ found' = [found EXCEPT ![p] = <<<<"Settings", id_seq["Settings"] + 1>>>>]
                   /\ last' = [last EXCEPT !.loads = @ + 1, !.loaded = @ + 1]
                   /\ pc' = [pc EXCEPT ![p] = "get_settings:store"]
                   /\ UNCHANGED call
    /\ UNCHANGED <<db, tx, seen, calls, first_id>>

\* "_settings = ..."
get_settings_store(p) ==
    /\ pc[p] = "get_settings:store"
    /\ db' = [db EXCEPT !["_settings"] = found[p][1]]
    /\ found' = [found EXCEPT ![p] = <<>>]
    /\ pc' = [pc EXCEPT ![p] = "get_settings:return"]
    /\ UNCHANGED <<id_seq, call, tx, seen, calls, first_id, last>>

\* "return _settings"
get_settings_return(p) ==
    /\ pc[p] = "get_settings:return"
    /\ last' = SettingsHistory(p, "returned", db["_settings"],
                               last.returned \cup {db["_settings"]},
                               last.earlier, last.loads, last.loaded)
    /\ pc' = [pc EXCEPT ![p] = "idle"]
    /\ call' = [call EXCEPT ![p] = NoCall]
    /\ UNCHANGED <<db, id_seq, found, tx, seen, calls, first_id>>

\* reset_settings: "_settings = None"
reset_settings_store(p) ==
    /\ pc[p] = "reset_settings"
    /\ db' = [db EXCEPT !["_settings"] = None]
    /\ last' = SettingsHistory(p, "returned", None, {},
                               last.earlier \cup last.returned, 0, 0)
    /\ pc' = [pc EXCEPT ![p] = "idle"]
    /\ call' = [call EXCEPT ![p] = NoCall]
    /\ UNCHANGED <<id_seq, found, tx, seen, calls, first_id>>

\* calls made one at a time
NextSettingsSeq ==
    \/ \E p \in Procs, k \in {"get_settings", "reset_settings"} :
          AllIdle /\ Begin(p, [kind |-> k], k, MaxCallsSettings)
    \/ \E p \in Procs : get_settings_test(p)
    \/ \E p \in Procs : get_settings_load(p)
    \/ \E p \in Procs : get_settings_store(p)
    \/ \E p \in Procs : get_settings_return(p)
    \/ \E p \in Procs : reset_settings_store(p)

SpecSettingsSeq == InitSettings /\ [][NextSettingsSeq]_vars

\* C24: with calls made one at a time, the get_settings calls that return
\* between two consecutive resets return one and the same instance, one run
\* of load_settings produced it, and it is an instance that no call before
\* the reset returned.
C24_OneInstanceBetweenResets ==
    /\ Cardinality(last.returned) <= 1
    /\ last.returned # {} => last.loaded = 1
    /\ None \notin last.returned
    /\ last.returned \cap last.earlier = {}

\* two gets returned the first instance, then after a reset a get returned
\* the second
C24_Witness ==
    /\ last.status = "returned" /\ last.call.kind = "get_settings"
    /\ last.earlier = {<<"Settings", 1>>}
    /\ last.returned = {<<"Settings", 2>>}
    /\ calls >= 4

\* threads of one process calling get_settings at the same time, from the
\* state in which nothing is cached
NextSettings ==
    \/ \E p \in Procs :
          Begin(p, [kind |-> "get_settings"], "get_settings", MaxCallsSettings)
    \/ \E p \in Procs : get_settings_test(p)
    \/ \E p \in Procs : get_settings_load(p)
    \/ \E p \in Procs : get_settings_store(p)
    \/ \E p \in Procs : get_settings_return(p)

SpecSettings == InitSettings /\ [][NextSettings]_vars

\* C30 as claimed: however the threads' get_settings calls interleave,
\* load_settings produces one Settings object and every call returns it.
C30_ConcurrentCallersShareOneLoad ==
    /\ last.loaded <= 1
    /\ Cardinality(last.returned) <= 1

--------------------------------------------------------------------------
\* Sessions of a write operation

\* C25 as claimed: when a write operation has returned or raised, every
\* session it opened, the session of each attempt included, is closed, has
\* been committed if the operation succeeded and rolled back if it did not,
\* and none has been both committed and rolled back.
C25_EverySessionCommittedOrRolledBackThenClosed ==
    last.status \in {"returned", "raised"} =>
        /\ last.sessions # <<>>
        /\ \A i \in DOMAIN last.sessions :
              /\ last.sessions[i].closed
              /\ ~(last.sessions[i].committed /\ last.sessions[i].rolled_back)
              /\ IF last.status = "returned"
                 THEN last.sessions[i].committed /\ ~last.sessions[i].rolled_back
                 ELSE last.sessions[i].rolled_back /\ ~last.sessions[i].committed

--------------------------------------------------------------------------
\* Batches: EmbedRepository.bulk_insert_embeddings and
\* PriceBarRepository.bulk_insert_bars, beside bulk_insert_links and insert

PriceBarDTO(ticker, ts, timeframe) ==
    [ticker |-> ticker, ts |-> ts, o |-> "10.0", h |-> "11.0", l |-> "9.5",
     c |-> "10.5", v |-> "1000", timeframe |-> timeframe]

PriceBar(dto) ==
    [ticker |-> dto.ticker, ts |-> dto.ts, o |-> dto.o, h |-> dto.h, l |-> dto.l,
     c |-> dto.c, v |-> dto.v, timeframe |-> dto.timeframe]

\* "if not embeddings: return", "if not bars: return": no session is opened
bulk_insert_empty(p, c, bound) ==
    /\ Idle(p)
    /\ calls < bound
    /\ c.kind \in {"bulk_insert_embeddings", "bulk_insert_bars"}
    /\ c.batch = <<>>
    /\ calls' = calls + 1
    /\ last' = [proc |-> p, call |-> c, status |-> "returned", value |-> 0,
                thrown |-> NoError, error |-> NoError, sessions |-> <<>>,
                executions |-> 0, concurrent |-> {}, writes |-> EmptyTx]
    /\ UNCHANGED <<db, id_seq, pc, call, found, tx, seen, first_id>>

\* the loop building embed_objects, session.add_all(embed_objects),
\* session.flush()
bulk_insert_embeddings_flush(p) ==
    /\ pc[p] = "bulk_insert_embeddings:flush"
    /\ LET embed_objects ==
              [i \in DOMAIN call[p].batch |->
                  ArticleEmbed(call[p].batch[i].article_id, call[p].batch[i])]
       IN  /\ ~InsertBlocked(p, "article_embed", embed_objects)
           /\ IF UniqueViolation(p, "article_embed", embed_objects)
              THEN Fail(p, UniqueViolationError)
              ELSE IF ForeignKeyViolation(p, "article_embed", embed_objects)
              THEN Fail(p, ForeignKeyError)
              ELSE /\ tx' = [tx EXCEPT ![p]["article_embed"].ins =
                                @ (+) SeqToBag(embed_objects)]
                   /\ pc' = [pc EXCEPT ![p] = "commit"]
                   /\ UNCHANGED <<call, found, seen, last>>
    /\ UNCHANGED <<db, id_seq, calls, first_id>>

\* the loop building bar_objects, session.add_all(bar_objects), session.flush()
bulk_insert_bars_flush(p) ==
    /\ pc[p] = "bulk_insert_bars:flush"
    /\ LET bar_objects == [i \in DOMAIN call[p].batch |-> PriceBar(call[p].batch[i])]
       IN  /\ ~InsertBlocked(p, "price_bar", bar_objects)
           /\ IF UniqueViolation(p, "price_bar", bar_objects)
              THEN Fail(p, UniqueViolationError)
              ELSE /\ tx' = [tx EXCEPT ![p]["price_bar"].ins = @ (+) SeqToBag(bar_objects)]
                   /\ pc' = [pc EXCEPT ![p] = "commit"]
                   /\ UNCHANGED <<call, found, seen, last>>
    /\ UNCHANGED <<db, id_seq, calls, first_id>>

MaxCallsBatch == 4

BatchOfArticle(a) == [article_id |-> a] @@ EmbeddingDTO("vector-a", "MiniLM-L6-v2")

\* the batches: one that can be stored, and ones whose later row breaks a
\* constraint (one key twice, an article that does not exist)
BatchCalls ==
    {[kind |-> "bulk_insert_embeddings", batch |-> b] :
        b \in {<<>>, <<BatchOfArticle(1)>>, <<BatchOfArticle(1), BatchOfArticle(1)>>,
               <<BatchOfArticle(1), BatchOfArticle(2)>>}}
    \cup
    {[kind |-> "bulk_insert_bars", batch |-> b] :
        b \in {<<>>, <<PriceBarDTO("AAPL", "t1", "1d")>>,
               <<PriceBarDTO("AAPL", "t2", "1d"), PriceBarDTO("AAPL", "t2", "1d")>>}}
    \cup
    {[kind |-> "bulk_insert_links", article_id |-> 1, links |-> l] :
        l \in {<<TickerLinkDTO("MSFT", "0.3", "ner", <<"Microsoft">>)>>,
               <<TickerLinkDTO("AAPL", "0.9", "cashtag", <<"$AAPL">>),
                 TickerLinkDTO("AAPL", "0.6", "dict", <<"apple">>)>>}}
    \cup
    {[kind |-> "insert", points |-> <<SignalDTO("AAPL", "t1", <<>>)>>],
     [kind |-> "upsert_by_url", dto |-> ArticleDTO("u1", "v1")]}

\* write calls made one at a time; a statement or the commit of any of them
\* can fail
NextBatchSeq ==
    \E p \in {"p1"} :
        \/ \E c \in BatchCalls :
              /\ c.kind \in {"bulk_insert_embeddings", "bulk_insert_bars"} => c.batch # <<>>
              /\ Begin(p, c, FirstStep(c), MaxCallsBatch)
        \/ \E c \in BatchCalls : bulk_insert_empty(p, c, MaxCallsBatch)
        \/ upsert_by_url_query(p)
        \/ upsert_by_url_insert(p)
        \/ upsert_by_url_update(p)
        \/ bulk_insert_links_delete_scan(p)
        \/ bulk_insert_links_delete_rows(p)
        \/ bulk_insert_links_flush(p)
        \/ insert_flush(p)
        \/ bulk_insert_embeddings_flush(p)
        \/ bulk_insert_bars_flush(p)
        \/ Commit(p)
        \/ \E e \in {DeadlockError, ConnectionError} : Fault(p, e)

SpecBatchSeq == Init /\ [][NextBatchSeq]_vars

\* C26: the stored rows change only in the step in which a write operation
\* commits and returns; an operation that raises, at whichever statement or
\* at its commit, has changed none of them, so the rows its earlier
\* statements deleted are still there and no row of its batch is.
C26_FailedWriteLeavesStoreUnchanged ==
    [][db' # db =>
          /\ last'.status = "returned"
          /\ \E p \in Procs : pc[p] = "commit" /\ pc'[p] = "idle" /\ last'.proc = p]_vars

\* a bulk_insert_links naming AAPL twice failed at its insert, after its
\* delete, and the article still has the MSFT link it had before
C26_Witness ==
    /\ last.status = "raised"
    /\ last.call.kind = "bulk_insert_links"
    /\ last.thrown = UniqueViolationError
    /\ \E r \in BagToSet(db["article_ticker"]) : r.article_id = 1 /\ r.ticker = "MSFT"

--------------------------------------------------------------------------
\* Contributions of an inserted signal

\* C28: a signal_contrib row appears only in the commit of an
\* add_signal_contribution call, for the signal id of that call; the commit
\* of insert(points) stores no contribution for the ids it returns, whatever
\* the contributors lists of the points hold.
C28_InsertStoresNoContributions ==
    [][/\ \A r \in BagToSet(db'["signal_contrib"]) \ BagToSet(db["signal_contrib"]) :
             /\ last'.call.kind = "add_signal_contribution"
             /\ last'.call.dto.signal_id = r.signal_id
       /\ (last' # last /\ last'.call.kind = "insert" /\ last'.status = "returned") =>
             /\ db'["signal_contrib"] = db["signal_contrib"]
             /\ \A i \in DOMAIN last'.value :
                   \A r \in BagToSet(db'["signal_contrib"]) : r.signal_id # last'.value[i]]_vars

\* insert returned the id of a signal whose DTO names the contributors 1 and
\* 2, an article the list names is stored, and no contribution is
C28_Witness ==
    /\ last.status = "returned" /\ last.call.kind = "insert"
    /\ last.call.points # <<>>
    /\ last.call.points[1].contributors = <<1, 2>>
    /\ \E a \in BagToSet(db["article"]) : a.id = 1
    /\ db["signal_contrib"] = EmptyBag

--------------------------------------------------------------------------
\* models/mappers.py: ingest_item_to_article, and the upsert of its result
\*
\* The collector, process p1, maps one item at a time and upserts the result;
\* a call may lose its connection. An item is the
\* record of the IngestItem fields the mapping reads; its url is the text of
\* the AnyUrl field, which the field accepted, with scheme and host in lower
\* case.

\* ArticleDTO(source=..., url=canonicalize_url(str(item.url)), ...)
ingest_item_to_article_raw_url(item) ==
    [source |-> item.source,
     url |-> item.url,
     published_at |-> item.published_at,
     title |-> clean_text(item.title),
     text |-> clean_text(item.text),
     lang |-> item.lang,
     hash |-> generate_article_hash(item.title, item.url).value,
     credibility |-> calculate_credibility(item)]

ingest_item_to_article(item) ==
    [source |-> item.source,
     url |-> canonicalize_url(item.url).value,
     published_at |-> item.published_at,
     title |-> clean_text(item.title),
     text |-> clean_text(item.text),
     lang |-> item.lang,
     hash |-> generate_article_hash(item.title, item.url).value,
     credibility |-> calculate_credibility(item)]

MaxCallsIngest == 2

\* name=value parameters of a query string
Param(name, value) == <<name, "=", value>>

TrackingBefore == {<<>>, <<Param("utm_source", "a")>>}
TrackingAfter == {<<>>, <<Param("utm_medium", "b")>>}
PageParams == {<<>>, <<Param("a", "a")>>}
Fragments == {<<>>, <<"a">>}

\* the URL of a page with tracking parameters around the page's own and a fragment
ItemUrl(before, params, after, fragment) ==
    LET segments == before \o params \o after
    IN  <<UrlHead("https", "example.com", "/news")>>
        \o (IF segments = <<>> THEN <<>> ELSE <<"?">> \o Join(segments, <<"&">>))
        \o (IF fragment = <<>> THEN <<>> ELSE <<"#">> \o fragment)

ItemUrls ==
    {ItemUrl(b, q, a, f) :
        b \in TrackingBefore, q \in PageParams, a \in TrackingAfter, f \in Fragments}

IngestItems ==
    [source : {"gdelt"}, url : ItemUrls, published_at : {<<"t1">>},
     title : {<<"x">>, <<"y">>}, text : {<<"x">>}, lang : {"en"},
     author : {None}, license : {None}]

\* the parameters of the query of url, tracking parameters left out
PageParamsOf(url) ==
    LET query == urlparse(url).query
    IN  SelectSeq(IF query = <<>> THEN <<>> ELSE Split(query, "&"),
                  LAMBDA nv : Before(nv, "=") \notin utm_params)

\* u and v are the same up to tracking parameters and the fragment
SameButTrackingAndFragment(u, v) ==
    /\ u[1] = v[1]
    /\ urlparse(u).path = urlparse(v).path
    /\ PageParamsOf(u) = PageParamsOf(v)

\* the items mapped and upserted before the call in progress, with what the
\* upserts returned
Earlier ==
    IF last.status = "none" THEN <<>>
    ELSE Append(last.call.earlier,
                [item |-> last.call.item, status |-> last.status, value |-> last.value])

\* article_id = repo.upsert_by_url(ingest_item_to_article(item))
ingest_item_to_article_call(p) ==
    \E item \in IngestItems :
        /\ p = "p1"
        /\ AllIdle
        /\ Begin(p, [kind |-> "upsert_by_url", dto |-> ingest_item_to_article(item),
                     item |-> item, earlier |-> Earlier],
                 "upsert_by_url:query", MaxCallsIngest)

InitIngest ==
    /\ db = [t \in Tables |-> EmptyBag]
    /\ id_seq = [article |-> 0, signal |-> 0]
    /\ pc = [p \in Procs |-> "idle"]
    /\ call = [p \in Procs |-> NoCall]
    /\ found = [p \in Procs |-> {}]
    /\ tx = [p \in Procs |-> EmptyTx]
    /\ seen = [p \in Procs |-> {}]
    /\ calls = 0
    /\ first_id = [u \in ItemUrls |-> 0]
    /\ last = NoOutcome

NextIngestSeq ==
    \E p \in Procs :
        \/ ingest_item_to_article_call(p)
        \/ upsert_by_url_query(p)
        \/ upsert_by_url_update(p)
        \/ upsert_by_url_insert(p)
        \/ Commit(p)
        \/ Fault(p, ConnectionError)

SpecIngestSeq == InitIngest /\ [][NextIngestSeq]_vars

\* C27 as claimed: when an item was mapped and upserted and an earlier item
\* whose URL differs from its URL only in UTM tracking parameters and the
\* fragment was mapped and upserted too, both upserts returned the same
\* article id and the store holds a single row for the two.
C27_TrackingVariantsStoredAsOneArticle ==
    (last.status = "returned" /\ last.call.kind = "upsert_by_url") =>
        \A i \in DOMAIN last.call.earlier :
            LET e == last.call.earlier[i]
            IN  (/\ e.status = "returned"
                 /\ SameButTrackingAndFragment(e.item.url, last.call.item.url)) =>
                    /\ e.value = last.value
                    /\ Count("article",
                             LAMBDA r : r.url \in {ingest_item_to_article(e.item).url,
                                                   last.call.dto.url}
                                        \/ r.id \in {e.value, last.value}) = 1

\* a page was upserted with utm_source and a fragment in its URL, then with
\* utm_medium and no fragment, and the one row has the second item's title
C27_Witness ==
    /\ last.status = "returned" /\ last.call.kind = "upsert_by_url"
    /\ Len(last.call.earlier) = 1
    /\ last.call.earlier[1].status = "returned"
    /\ last.call.earlier[1].item.url =
          ItemUrl(<<Param("utm_source", "a")>>, <<Param("a", "a")>>, <<>>, <<"a">>)
    /\ last.call.item.url =
          ItemUrl(<<>>, <<Param("a", "a")>>, <<Param("utm_medium", "b")>>, <<>>)
    /\ last.call.earlier[1].item.title = <<"x">> /\ last.call.item.title = <<"y">>
    /\ last.value = 1
    /\ BagCardinality(db["article"]) = 1

====
